---- MODULE Spec2Model ----
(***************************************************************************)
(* A model of shrike.confidential_logging.exceptions: the attribute        *)
(* transformer, the allow-list classifier, the recursive exception         *)
(* sanitizer scrub_exception and the emitter                               *)
(* print_prefixed_stack_trace_and_raise.                                   *)
(*                                                                         *)
(* Text is a sequence of words (a word is a TLA+ string).  Concatenation   *)
(* of text is \o, a regular-expression search for a literal pattern is a   *)
(* search for a contiguous sub-sequence, and re.IGNORECASE folds each word *)
(* to lower case before comparing.                                         *)
(***************************************************************************)
EXTENDS Naturals, Sequences, FiniteSets, TLC

(***************************************************************************)
(* Bounds of the model.                                                    *)
(***************************************************************************)
\* number of error objects in the graph handed to the sanitizer
MaxNodes == 2
\* number of constructors (atoms and collections) in a transformer input
MaxSize == 4
\* number of patterns in an allow_list handed to the classifier alone
MaxPatterns == 2

\* the most log calls of a run
MaxRecords == 1
\* the most calls of enable_compliant_logging of a run
MaxCalls == 2
\* the threads that call set_prefix and get_prefix at the same time
MaxThreads == 3

(***************************************************************************)
(* Text.                                                                   *)
(***************************************************************************)
PREFIX == <<"SystemLog:">>
SCRUB_MESSAGE == <<"**Exception message scrubbed**">>

\* str.lower() of the cased words the model uses; every other word is
\* already lower case or has no case.
LowerTable ==
  [Public |-> "public", Value |-> "value", Error |-> "error",
   Runtime |-> "runtime", Argument |-> "argument", Key |-> "key",
   Type |-> "type", Index |-> "index", Not |-> "not",
   Implemented |-> "implemented", File |-> "file", Found |-> "found",
   IO |-> "io", Exception |-> "exception", Arithmetic |-> "arithmetic",
   Unmodifiable |-> "unmodifiable", Attribute |-> "attribute",
   Pickle |-> "pickle", PICKLE |-> "pickle", Module |-> "module",
   Obtained |-> "obtained", None |-> "none", Errno |-> "errno",
   Sealed |-> "sealed", Broken |-> "broken", Traceback |-> "traceback",
   The |-> "the", During |-> "during", VALUE |-> "value",
   Falsy |-> "falsy"]

LowerWord(w) ==
  CASE w \in DOMAIN LowerTable -> LowerTable[w]
    [] w = "SystemLog:" -> "systemlog:"
    [] w = "No such file" -> "no such file"
    [] w = "**Exception message scrubbed**" -> "**exception message scrubbed**"
    [] OTHER -> w

Lower(s) == [i \in 1..Len(s) |-> LowerWord(s[i])]

\* pat occurs in s as a contiguous sub-sequence
Contains(s, pat) ==
  \E i \in 0..Len(s) :
     /\ i + Len(pat) <= Len(s)
     /\ \A j \in 1..Len(pat) : s[i + j] = pat[j]

\* re.search(expr, text, re.IGNORECASE) for a literal expr
re_search(expr, text) == Contains(Lower(text), Lower(expr))

(***************************************************************************)
(* Type names.                                                             *)
(***************************************************************************)
PublicValueError == <<"Public", "Value", "Error">>
PublicRuntimeError == <<"Public", "Runtime", "Error">>
PublicArgumentError == <<"Public", "Argument", "Error">>
PublicKeyError == <<"Public", "Key", "Error">>
PublicTypeError == <<"Public", "Type", "Error">>
PublicIndexError == <<"Public", "Index", "Error">>
PublicNotImplementedError == <<"Public", "Not", "Implemented", "Error">>
PublicFileNotFoundError == <<"Public", "File", "Not", "Found", "Error">>
PublicIOError == <<"Public", "IO", "Error">>

default_allow_list ==
  << PublicValueError, PublicRuntimeError, PublicArgumentError,
     PublicKeyError, PublicTypeError, PublicIndexError,
     PublicNotImplementedError, PublicFileNotFoundError, PublicIOError >>

(***************************************************************************)
(* Python values held by the attributes of an error.  k is the kind, s the *)
(* text of a str (the name of an int or of a callable), e the elements of  *)
(* a collection.  A dict holds its items as 2-tuples; iterating it gives   *)
(* the keys.                                                               *)
(***************************************************************************)
V(k, s, e) == [k |-> k, s |-> s, e |-> e]
Str(s) == V("str", s, <<>>)
Int(n) == V("int", <<n>>, <<>>)
NoneV == V("none", <<>>, <<>>)
Callable(n) == V("callable", <<n>>, <<>>)
Tuple(e) == V("tuple", <<>>, e)
List(e) == V("list", <<>>, e)
Bytes(e) == V("bytes", <<>>, e)
Dict(items) == V("dict", <<>>, items)

IterableKinds == {"tuple", "list", "bytes", "dict"}

\* iter(o)
Iter(o) ==
  IF o.k = "dict" THEN [i \in 1..Len(o.e) |-> o.e[i].e[1]] ELSE o.e

\* the outcome of evaluating an expression: a value, or a raised error type
Ok(v) == [ok |-> TRUE, v |-> v, exc |-> ""]
Raise(t) == [ok |-> FALSE, v |-> NoneV, exc |-> t]

\* len(text): the number of characters of its words
RECURSIVE CharCount(_)
CharCount(s) == IF s = <<>> THEN 0 ELSE Len(Head(s)) + CharCount(Tail(s))

\* len(x) of an iterable x
PyLen(x) == IF x.k = "str" THEN CharCount(x.s) ELSE Len(Iter(x))

\* the members of an iterable x; a text splits at its words, which is exact
\* for the texts of two one-character words, the only ones that unpack
Unpack(x) ==
  IF x.k = "str" THEN [i \in 1..Len(x.s) |-> Str(<<x.s[i]>>)] ELSE Iter(x)

\* type(o)(...) consuming one more transformed element x after acc
Extend(kind, acc, x) ==
  CASE kind = "tuple" -> Ok(Append(acc, x))
    [] kind = "list" -> Ok(Append(acc, x))
    [] kind = "bytes" ->
         IF x.k = "int" THEN Ok(Append(acc, x)) ELSE Raise("TypeError")
    [] kind = "dict" ->
         IF x.k \notin (IterableKinds \cup {"str"}) THEN Raise("TypeError")
         ELSE IF PyLen(x) # 2 \/ Len(Unpack(x)) # 2 THEN Raise("ValueError")
         ELSE IF Unpack(x)[1].k \in {"list", "dict"} THEN Raise("TypeError")
         ELSE Ok(Append(acc, Tuple(Unpack(x))))

\* a dict keeps the last item given for a key
DictItems(items) ==
  LET keep(i) == \A j \in (i + 1)..Len(items) : items[j].e[1] # items[i].e[1]
  IN  SelectSeq([i \in 1..Len(items) |-> [i |-> i, x |-> items[i]]],
                LAMBDA r : keep(r.i))

Rebuilt(kind, acc) ==
  IF kind = "dict"
  THEN LET d == DictItems(acc) IN V(kind, <<>>, [i \in 1..Len(d) |-> d[i].x])
  ELSE V(kind, <<>>, acc)

(***************************************************************************)
(* _attribute_transformer(prefix, scrub_message, keep).inner               *)
(***************************************************************************)
RECURSIVE attribute_transformer(_, _, _, _)
RECURSIVE MapInner(_, _, _, _, _, _, _)

\* type(o)(map(inner, o)): the elements are transformed and consumed one at
\* a time, so the first failure, of inner or of the constructor, is raised
MapInner(prefix, scrub_message, keep, kind, xs, i, acc) ==
  IF i > Len(xs) THEN Ok(Rebuilt(kind, acc))
  ELSE LET r == attribute_transformer(prefix, scrub_message, keep, xs[i])
       IN  IF ~r.ok THEN r
           ELSE LET a == Extend(kind, acc, r.v)
                IN  IF ~a.ok THEN a
                    ELSE MapInner(prefix, scrub_message, keep, kind, xs,
                                  i + 1, a.v)

\* inner without its last branch: a value of no known kind is left as it is
attribute_transformer_keeps_opaque(prefix, scrub_message, keep, o) ==
  IF o.k = "str"
  THEN IF keep THEN Ok(Str(prefix \o o.s))
       ELSE Ok(Str(prefix \o scrub_message))
  ELSE IF o.k \in IterableKinds
  THEN MapInner(prefix, scrub_message, keep, o.k, Iter(o), 1, <<>>)
  ELSE Ok(o)

\* inner that puts the scrub message in place of a text without the prefix
attribute_transformer_bare_scrub(prefix, scrub_message, keep, o) ==
  IF o.k = "str"
  THEN IF keep THEN Ok(Str(prefix \o o.s))
       ELSE Ok(Str(scrub_message))
  ELSE IF o.k \in IterableKinds
  THEN MapInner(prefix, scrub_message, keep, o.k, Iter(o), 1, <<>>)
  ELSE IF o.k = "callable" THEN Ok(o)
  ELSE IF ~keep THEN Ok(NoneV)
  ELSE Ok(o)

attribute_transformer(prefix, scrub_message, keep, o) ==
  IF o.k = "str"
  THEN IF keep THEN Ok(Str(prefix \o o.s))
       ELSE Ok(Str(prefix \o scrub_message))
  ELSE IF o.k \in IterableKinds
  THEN MapInner(prefix, scrub_message, keep, o.k, Iter(o), 1, <<>>)
  ELSE IF o.k = "callable" THEN Ok(o)
  ELSE IF ~keep THEN Ok(NoneV)
  ELSE Ok(o)

(***************************************************************************)
(* The inputs of the transformer: every value built from at most MaxSize   *)
(* constructors, with collections of at most two members.                  *)
(***************************************************************************)
Atoms == {Str(<<"secret">>), Int("1"), NoneV, Callable("f")}

RECURSIVE Hashable(_)
Hashable(v) ==
  \/ v.k \in {"str", "int", "none", "callable", "bytes"}
  \/ v.k = "tuple" /\ \A i \in 1..Len(v.e) : Hashable(v.e[i])

RECURSIVE ValuesOfSize(_)
ValuesOfSize(n) ==
  IF n = 0 THEN {}
  ELSE IF n = 1
  THEN Atoms \cup {Tuple(<<>>), List(<<>>), Bytes(<<>>), Dict(<<>>)}
  ELSE LET one == ValuesOfSize(n - 1)
           two == UNION {{<<a, b>> : a \in ValuesOfSize(i),
                                    b \in ValuesOfSize(n - 1 - i)} :
                         i \in 1..(n - 2)}
       IN  {Tuple(<<a>>) : a \in one} \cup {List(<<a>>) : a \in one}
           \cup {Tuple(p) : p \in two} \cup {List(p) : p \in two}
           \cup {Bytes(<<a>>) : a \in {x \in one : x.k = "int"}}
           \cup {Bytes(p) : p \in {q \in two : q[1].k = "int" /\ q[2].k = "int"}}
           \cup {Dict(<<Tuple(p)>>) : p \in {q \in two : Hashable(q[1])}}

TransformerInputs == UNION {ValuesOfSize(n) : n \in 1..MaxSize}

(***************************************************************************)
(* is_exception_allowed.  The classifier reads the error through           *)
(* TracebackException: exc_type.__name__ and _str, which is str(error).    *)
(* A pattern is a literal text; the pattern INVALID stands for a text that *)
(* is no regular expression, for which re.search raises re.error.          *)
(***************************************************************************)
INVALID == <<"(">>

RECURSIVE is_exception_allowed_from(_, _, _, _)
is_exception_allowed_from(name, str, exprs, i) ==
  IF i > Len(exprs) THEN Ok(FALSE)
  ELSE IF exprs[i] = INVALID THEN Raise("error")
  ELSE IF re_search(exprs[i], str) THEN Ok(TRUE)
  ELSE IF re_search(exprs[i], name) THEN Ok(TRUE)
  ELSE is_exception_allowed_from(name, str, exprs, i + 1)

\* the loop over allow_list alone
is_exception_allowed_no_defaults(name, str, allow_list) ==
  is_exception_allowed_from(name, str, allow_list, 1)

\* exception is given by its type name and its rendered message
is_exception_allowed(name, str, allow_list) ==
  is_exception_allowed_from(name, str, allow_list \o default_allow_list, 1)

(***************************************************************************)
(* Error objects.  An error has a type name, the links __cause__ and       *)
(* __context__ (0 is None), __suppress_context__, its truth value, the     *)
(* sorted attribute names dir() lists, for each name the value getattr     *)
(* returns or the error it raises, the error setattr raises, how the type  *)
(* renders str(error), and the code lines of the frames of its traceback.  *)
(***************************************************************************)
\* the call site of the wrapped function in _PrefixStackTraceWrapper
WRAPPER_CALL_SITE == <<"return function(*func_args, **func_kwargs)">>
USER_CALL_SITE == <<"raise">>

ValueError == <<"Value", "Error">>
ArithmeticError == <<"Arithmetic", "Error">>
UnmodifiableError == <<"Unmodifiable", "Error">>
SealedError == <<"Sealed", "Error">>
BrokenError == <<"Broken", "Error">>
FileNotFoundError == <<"File", "Not", "Found", "Error">>
ExceptionT == <<"Exception">>
FalsyError == <<"Falsy", "Error">>

Attr(val, get, set) == [val |-> val, get |-> get, set |-> set]
Plain(val) == Attr(val, "", "")

\* what every BaseException lists: a dunder name, args and a bound method
BaseAttrs(args) ==
  [n \in {"__doc__", "args", "with_traceback"} |->
     CASE n = "__doc__" -> Plain(Str(<<"doc">>))
       [] n = "args" -> Plain(Tuple(args))
       [] n = "with_traceback" -> Plain(Callable("with_traceback"))]

\* f extended with the attributes of g
WithAttrs(f, g) ==
  [n \in DOMAIN f \cup DOMAIN g |-> IF n \in DOMAIN g THEN g[n] ELSE f[n]]

\* position of the attribute names in sorted(dir(error))
AttrOrder ==
  << "__doc__", "aaa", "args", "broken", "characters_written", "errno",
     "filename", "strerror", "unmodifiable", "with_traceback" >>

Dir(attrs) == SelectSeq(AttrOrder, LAMBDA n : n \in DOMAIN attrs)

Error(type, str, attrs) ==
  [type |-> type, str |-> str, truthy |-> TRUE, attrs |-> attrs,
   cause |-> 0, context |-> 0, suppress |-> FALSE, tb |-> <<>>]

\* the errors a wrapped function raises in the model
SampleNames ==
  {"ValueError", "ArithmeticError", "PublicValueError", "UnmodifiableError",
   "SealedError", "FileNotFoundError", "BrokenError", "BytesException"}

Sample(name) ==
  CASE name = "ValueError" ->
         \* ValueError("secret")
         Error(ValueError, "args", BaseAttrs(<<Str(<<"secret">>)>>))
    [] name = "ArithmeticError" ->
         \* ArithmeticError("Pickle jar")
         Error(ArithmeticError, "args", BaseAttrs(<<Str(<<"Pickle", "jar">>)>>))
    [] name = "PublicValueError" ->
         Error(PublicValueError, "args", BaseAttrs(<<Str(<<"for", "all">>)>>))
    [] name = "UnmodifiableError" ->
         \* no message, and a property without setter
         Error(UnmodifiableError, "args",
               WithAttrs(BaseAttrs(<<>>),
                 [unmodifiable |->
                    Attr(Str(<<"you can't change me">>), "", "AttributeError")]))
    [] name = "SealedError" ->
         \* a property without setter whose name sorts before args
         Error(SealedError, "args",
               WithAttrs(BaseAttrs(<<Str(<<"sealed", "secret">>)>>),
                 [aaa |-> Attr(Str(<<"sealed", "value">>), "", "AttributeError")]))
    [] name = "FileNotFoundError" ->
         \* characters_written is listed by dir() and cannot be read
         Error(FileNotFoundError, "oserror",
               WithAttrs(BaseAttrs(<<Int("2"), Str(<<"No such file">>)>>),
                 [characters_written |-> Attr(NoneV, "AttributeError", ""),
                  errno |-> Plain(Int("2")),
                  filename |-> Plain(Str(<<"fname">>)),
                  strerror |-> Plain(Str(<<"No such file">>))]))
    [] name = "BrokenError" ->
         \* a property whose getter raises ValueError
         Error(BrokenError, "args",
               WithAttrs(BaseAttrs(<<Str(<<"broken", "secret">>)>>),
                 [broken |-> Attr(NoneV, "ValueError", "")]))
    [] name = "BytesException" ->
         \* Exception(b"\x01")
         Error(ExceptionT, "args", BaseAttrs(<<Bytes(<<Int("1")>>)>>))
    [] name = "FalsyError" ->
         \* an error whose __bool__ returns False
         [Error(FalsyError, "args", BaseAttrs(<<Str(<<"falsy", "secret">>)>>))
            EXCEPT !.truthy = FALSE]
    [] name = "QuotingException" ->
         \* an error whose message quotes the code line of the wrapper
         Error(ExceptionT, "args", BaseAttrs(<<Str(WRAPPER_CALL_SITE)>>))

(***************************************************************************)
(* str() and repr() of values, and str(error).                             *)
(***************************************************************************)
RECURSIVE Repr(_)
RECURSIVE ReprAll(_, _)
ReprAll(xs, i) ==
  IF i > Len(xs) THEN <<>>
  ELSE Repr(xs[i]) \o <<",">> \o ReprAll(xs, i + 1)

Repr(v) ==
  CASE v.k = "str" -> <<"'">> \o v.s \o <<"'">>
    [] v.k = "int" -> v.s
    [] v.k = "none" -> <<"None">>
    [] v.k = "callable" -> <<"<method">> \o v.s \o <<">">>
    [] v.k = "tuple" -> <<"(">> \o ReprAll(v.e, 1) \o <<")">>
    [] v.k = "list" -> <<"[">> \o ReprAll(v.e, 1) \o <<"]">>
    [] v.k = "bytes" -> <<"b'">> \o ReprAll(v.e, 1) \o <<"'">>
    [] v.k = "dict" -> <<"{">> \o ReprAll(v.e, 1) \o <<"}">>

PyStr(v) == IF v.k = "str" THEN v.s ELSE Repr(v)

\* BaseException.__str__, and OSError.__str__ with a filename
StrOf(node) ==
  IF node.str = "oserror"
  THEN <<"[", "Errno">> \o PyStr(node.attrs["errno"].val) \o <<"]">>
       \o PyStr(node.attrs["strerror"].val) \o <<":">>
       \o Repr(node.attrs["filename"].val)
  ELSE LET args == node.attrs["args"].val.e
       IN  IF Len(args) = 0 THEN <<>>
           ELSE IF Len(args) = 1 THEN PyStr(args[1])
           ELSE Repr(node.attrs["args"].val)

(***************************************************************************)
(* The state.                                                              *)
(***************************************************************************)
VARIABLES
  cfg,          \* the arguments of print_prefixed_stack_trace_and_raise
  heap,         \* the error objects, by identity
  err,          \* the error handed to print_prefixed_stack_trace_and_raise
  pc,           \* where print_prefixed_stack_trace_and_raise stands
  stack,        \* the activations of scrub_exception, innermost last
  seen,         \* _seen
  scrubbed_err, \* the result of the outermost scrub_exception
  sink,         \* the lines printed to file
  raised,       \* what the call raised to its caller
  orig,         \* the error objects as they were handed in
  hist,         \* what the sanitizer did to each error handed in
  tin, tout,    \* an input of _attribute_transformer(...).inner and its result
  ain, aout,    \* an input of is_exception_allowed and its result
  entry,        \* how the emitter is reached: wrapper, block or direct call
  exc_info,     \* sys.exc_info()[1], the error being handled (0 is None)
  returned_value, \* what the wrapper returned to its caller, "" while it has not
  _PREFIX,      \* the global prefix of compliant_logging/logging.py
  logger_class, \* logging.getLoggerClass()
  manager,      \* the loggers of logging.Logger.manager and of logging.root
  held,         \* the loggers the program holds a reference to
  records,      \* the records made by the log calls, and the calls refused
  version,      \* sys.version_info[1]
  handlers,     \* logging.root.handlers
  stderr,       \* the lines the last enable_compliant_logging wrote to stderr
  last_call,    \* the arguments of the last enable_compliant_logging
  _LOCK,        \* the thread that holds _LOCK, 0 when it is free
  threads,      \* the threads that call set_prefix and get_prefix
  lock_order,   \* the threads that took _LOCK, in the order they took it
  first_pass,   \* the errors as an earlier call of the emitter left them
  parked,       \* the scrub_exception call of the thread that is not running
  extractor     \* a StackTraceExtractor and what its last call did

vars ==
  << cfg, heap, err, pc, stack, seen, scrubbed_err, sink, raised, orig, hist,
     tin, tout, ain, aout, entry, exc_info, returned_value,
     _PREFIX, logger_class, manager, held, records,
     version, handlers, stderr, last_call, _LOCK, threads, lock_order,
     first_pass, parked, extractor >>

\* no call of the emitter before this one
NoFirstPass == [done |-> FALSE, heap |-> <<>>, result |-> 0, plain |-> FALSE]

\* no other thread in scrub_exception
NoParked ==
  [call |-> 0, pc |-> "", stack |-> <<>>, seen |-> {}, err |-> 0,
   scrubbed_err |-> 0, raised |-> [kind |-> "none", node |-> 0, exc |-> ""],
   together |-> FALSE, mixed |-> FALSE, alone |-> <<>>]

\* a StackTraceExtractor as __init__ leaves it, and no call made yet
NoExtractor ==
  [in_python_traceback |-> FALSE, show_exception_message |-> FALSE,
   prefix |-> "SystemLog", optimize |-> FALSE,
   op |-> "", string |-> <<>>, before |-> FALSE,
   match |-> [matched |-> FALSE, groupdict |-> <<>>],
   path |-> "", stdout |-> <<>>, failed |-> FALSE,
   raised |-> [type |-> <<>>, message |-> <<>>]]

\* the variables of compliant_logging/logging.py
thread_vars == << _LOCK, threads, lock_order >>

logging_vars ==
  << _PREFIX, logger_class, manager, held, records,
     version, handlers, stderr, last_call, thread_vars >>

\* no thread but the main one
NoThreads == _LOCK = 0 /\ threads = <<>> /\ lock_order = <<>>

\* None, as the formatter renders it
None == <<"None">>

\* the logging module as it is imported and never used
LoggingIdle ==
  /\ _PREFIX = None
  /\ logger_class = "Logger"
  /\ manager = {}
  /\ held = {}
  /\ records = <<>>
  /\ version = 8
  /\ handlers = {}
  /\ stderr = <<>>
  /\ last_call = [n |-> 0, prefix |-> None, force |-> "absent",
                  given |-> FALSE, hs |-> {}, before |-> {}, fresh |-> FALSE]
  /\ NoThreads

Ids(h) == 1..Len(h)

NoFailure == [attr |-> "", exc |-> "", stage |-> ""]

NotRaised == [kind |-> "none", node |-> 0, exc |-> ""]

Frame(exc, via) == [exc |-> exc, pc |-> "cause", via |-> via]

(***************************************************************************)
(* scrub_exception, lines 201-227: the keep decision and the loop over the *)
(* attributes of one error.                                                *)
(***************************************************************************)
\* the decision taken from the type name alone
\* every message kept
keep_decision_keeping(keep_message, node, allow_list) ==
  Ok(TRUE)

keep_decision_by_type(keep_message, node, allow_list) ==
  IF keep_message THEN Ok(TRUE)
  ELSE is_exception_allowed(node.type, <<>>, allow_list)

\* keep_message or is_exception_allowed(exception, allow_list)
keep_decision(keep_message, node, allow_list) ==
  IF keep_message THEN Ok(TRUE)
  ELSE is_exception_allowed(node.type, StrOf(node), allow_list)

\* the text of the error that replaces an error which cannot be scrubbed
new_exception_message(prefix, e, attr, type) ==
  prefix \o <<" ", "Obtained", " ", e, " ", "when trying to scrub", " ",
              attr, " ", "from", " ">> \o type

\* the replacement without the context of the error it replaces
new_exception_without_context(prefix, e, attr, node) ==
  [ Error(PublicRuntimeError, "args",
          BaseAttrs(<<Str(new_exception_message(prefix, e, attr, node.type))>>))
    EXCEPT !.cause = node.cause, !.suppress = TRUE ]

new_exception(prefix, e, attr, node) ==
  [ Error(PublicRuntimeError, "args",
          BaseAttrs(<<Str(new_exception_message(prefix, e, attr, node.type))>>))
    EXCEPT !.cause = node.cause, !.context = node.context, !.suppress = TRUE ]

\* attr and not attr.startswith("__")
is_scrubbed_name(attr) == attr # "" /\ attr \notin {"__doc__"}

\* the for loop from its i-th name on; acc holds the attributes as written
\* so far and the names written and skipped
RECURSIVE attribute_loop(_, _, _, _, _, _)

\* the loop with getattr inside the second try: an attribute that cannot be
\* read replaces the error
RECURSIVE attribute_loop_guarded_read(_, _, _, _, _, _)
attribute_loop_guarded_read(node, prefix, scrub_message, keep, i, acc) ==
  LET names == Dir(node.attrs) IN
  IF i > Len(names) THEN [acc EXCEPT !.kind = "finished"]
  ELSE
    LET attr == names[i]
        a == node.attrs[attr]
        next(acc2) ==
          attribute_loop_guarded_read(node, prefix, scrub_message, keep,
                                      i + 1, acc2)
    IN
    IF ~is_scrubbed_name(attr) THEN next(acc)
    ELSE IF a.get # ""
    THEN [acc EXCEPT !.kind = "replaced",
                     !.failure = [attr |-> attr, exc |-> a.get, stage |-> "read"]]
    ELSE
      LET r == attribute_transformer(prefix, scrub_message, keep, a.val) IN
      IF ~r.ok
      THEN [acc EXCEPT !.kind = "replaced",
              !.failure = [attr |-> attr, exc |-> r.exc, stage |-> "transform"]]
      ELSE IF a.set # ""
      THEN [acc EXCEPT !.kind = "replaced",
              !.failure = [attr |-> attr, exc |-> a.set, stage |-> "write"]]
      ELSE next([acc EXCEPT !.attrs[attr].val = r.v,
                            !.written = @ \cup {attr}])

attribute_loop(node, prefix, scrub_message, keep, i, acc) ==
  LET names == Dir(node.attrs) IN
  IF i > Len(names) THEN [acc EXCEPT !.kind = "finished"]
  ELSE
    LET attr == names[i]
        a == node.attrs[attr]
        next(acc2) ==
          attribute_loop(node, prefix, scrub_message, keep, i + 1, acc2)
    IN
    IF ~is_scrubbed_name(attr) THEN next(acc)
    ELSE IF a.get = "AttributeError"
    THEN next([acc EXCEPT !.skipped = @ \cup {attr}])
    ELSE IF a.get # ""
    THEN [acc EXCEPT !.kind = "raised",
                     !.failure = [attr |-> attr, exc |-> a.get, stage |-> "read"]]
    ELSE
      LET r == attribute_transformer(prefix, scrub_message, keep, a.val) IN
      IF ~r.ok
      THEN [acc EXCEPT !.kind = "replaced",
              !.failure = [attr |-> attr, exc |-> r.exc, stage |-> "transform"]]
      ELSE IF a.set # ""
      THEN [acc EXCEPT !.kind = "replaced",
              !.failure = [attr |-> attr, exc |-> a.set, stage |-> "write"]]
      ELSE next([acc EXCEPT !.attrs[attr].val = r.v,
                            !.written = @ \cup {attr}])

\* the loop that gives up on every error whose message is not kept
scrub_attributes_erasing_type(node, prefix, scrub_message, keep) ==
  IF keep
  THEN attribute_loop(node, prefix, scrub_message, keep, 1,
                      [kind |-> "", attrs |-> node.attrs, written |-> {},
                       skipped |-> {}, failure |-> NoFailure])
  ELSE [kind |-> "replaced", attrs |-> node.attrs, written |-> {},
        skipped |-> {},
        failure |-> [attr |-> "args", exc |-> "TypeError",
                     stage |-> "transform"]]

scrub_attributes(node, prefix, scrub_message, keep) ==
  attribute_loop(node, prefix, scrub_message, keep, 1,
                 [kind |-> "", attrs |-> node.attrs, written |-> {},
                  skipped |-> {}, failure |-> NoFailure])

\* the test without the _seen set
not_seen_ignored(link, s) == TRUE

\* id(link) not in _seen
not_seen(link, s) == link \notin s

(***************************************************************************)
(* The error graphs handed in: up to MaxNodes errors, each one of the      *)
(* samples, with every choice of cause and context links (self links and   *)
(* cycles included) in which every error is reachable from the first.      *)
(***************************************************************************)
Links(h, n) == {h[n].cause, h[n].context} \ {0}

RECURSIVE ReachSet(_, _, _)
ReachSet(h, s, k) ==
  IF k = 0 THEN s
  ELSE ReachSet(h, s \cup UNION {Links(h, n) : n \in s}, k - 1)

\* the errors reachable from root through cause and context links
Reachable(h, root) == IF root = 0 THEN {} ELSE ReachSet(h, {root}, Len(h))

Graph(n, names, cause, context) ==
  [i \in 1..n |->
     [Sample(names[i]) EXCEPT
        !.cause = cause[i], !.context = context[i],
        \* raise ... from sets __suppress_context__
        !.suppress = (cause[i] # 0),
        !.tb = IF i = 1 THEN <<WRAPPER_CALL_SITE, USER_CALL_SITE>>
               ELSE <<USER_CALL_SITE>>]]

Graphs ==
  UNION {
    {Graph(n, names, cause, context) :
       names \in [1..n -> SampleNames],
       cause \in [1..n -> 0..n],
       context \in [1..n -> 0..n]} : n \in 1..MaxNodes}

AllowLists == {<<>>, <<<<"pickle">>>>, <<INVALID>>}

Configs ==
  [prefix : {PREFIX}, scrub_message : {SCRUB_MESSAGE},
   keep_message : BOOLEAN, allow_list : AllowLists, add_timestamp : {FALSE}]

NoHist(h) ==
  [keep |-> [n \in Ids(h) |-> "unset"],
   written |-> [n \in Ids(h) |-> {}],
   skipped |-> [n \in Ids(h) |-> {}],
   failure |-> [n \in Ids(h) |-> NoFailure],
   replaced_by |-> [n \in Ids(h) |-> 0],
   visits |-> [n \in Ids(h) |-> 0],
   followed |-> [n \in Ids(h) |-> {}],
   returned |-> [n \in Ids(h) |-> FALSE],
   steps |-> 0]

NoInput == [used |-> FALSE]

\* print_prefixed_stack_trace_and_raise called with err given
DirectEntry ==
  [kind |-> "direct", disable |-> FALSE, target |-> "raises",
   explicit |-> TRUE]

Init ==
  /\ cfg \in Configs
  /\ heap \in Graphs
  /\ Reachable(heap, 1) = Ids(heap)
  /\ err = 1
  /\ pc = "start"
  /\ stack = <<>>
  /\ seen = {}
  /\ scrubbed_err = 0
  /\ sink = <<>>
  /\ raised = NotRaised
  /\ orig = heap
  /\ hist = NoHist(heap)
  /\ tin = NoInput /\ tout = NoInput /\ ain = NoInput /\ aout = NoInput
  /\ entry = DirectEntry /\ exc_info = 0 /\ returned_value = ""
  /\ LoggingIdle
  /\ first_pass = NoFirstPass /\ parked = NoParked /\ extractor = NoExtractor

PureUnchanged ==
  UNCHANGED << tin, tout, ain, aout, entry, exc_info, returned_value,
               logging_vars, first_pass, parked, extractor >>

(***************************************************************************)
(* scrub_exception as it is called and as it returns.                      *)
(***************************************************************************)
\* the caller's statement that receives the value r returned by the
\* activation f: line 279 at the top, the assignment of lines 183 and 192
\* below it
Returned(stk, h, f, r) ==
  IF stk = <<>>
  THEN [stack |-> stk, heap |-> h, top |-> TRUE]
  ELSE LET c == stk[Len(stk)] IN
       IF f.via = "cause"
       THEN [stack |-> [stk EXCEPT ![Len(stk)].pc = "context"],
             heap |-> [h EXCEPT ![c.exc].cause = r, ![c.exc].suppress = TRUE],
             top |-> FALSE]
       ELSE [stack |-> [stk EXCEPT ![Len(stk)].pc = "attrs"],
             heap |-> [h EXCEPT ![c.exc].context = r],
             top |-> FALSE]

\* scrub_exception(link, ...) is called from the activation on top of stk
\* (lines 173-179 of the callee): a false error returns None at once,
\* any other is marked seen and gets an activation
Called(stk, h, s, link, via) ==
  IF ~h[link].truthy
  THEN LET ret == Returned(stk, h, Frame(link, via), 0)
       IN  [stack |-> ret.stack, heap |-> ret.heap, seen |-> s, entered |-> FALSE]
  ELSE [stack |-> Append(stk, Frame(link, via)), heap |-> h,
        seen |-> s \cup {link}, entered |-> TRUE]

Visit(h, n, entered) ==
  [h EXCEPT !.visits[n] = IF entered THEN @ + 1 ELSE @, !.steps = @ + 1]

\* the error the call works on, without the look at sys.exc_info()
current_error_as_given(e, ambient) == e

\* lines 277-278: err, or the error being handled when err is None
current_error(e, ambient) == IF e = 0 THEN ambient ELSE e

\* one visited set that every top-level call adds to
seen_of_call_shared(left, exception) == left \cup {exception}

\* lines 177-179 in a top-level call: _seen is None, so the call makes a
\* set of its own, whatever set an earlier call left, and adds the error
seen_of_call(left, exception) == {exception}

\* lines 277-279: the call, and the outermost scrub_exception entered
Call ==
  /\ pc = "start"
  /\ LET e == current_error(err, exc_info) IN
     /\ err' = e
     /\ IF e = 0 \/ ~heap[e].truthy
        THEN /\ pc' = "print"
             /\ UNCHANGED << stack, seen >>
             /\ hist' = [hist EXCEPT !.steps = @ + 1]
        ELSE /\ pc' = "scrub"
             /\ stack' = <<Frame(e, "top")>>
             /\ seen' = seen_of_call(seen, e)
             /\ hist' = Visit(hist, e, TRUE)
  /\ UNCHANGED << cfg, heap, scrubbed_err, sink, raised, orig >>
  /\ PureUnchanged

\* lines 182-190
FollowCause ==
  /\ pc = "scrub" /\ stack # <<>>
  /\ LET top == stack[Len(stack)]
         link == heap[top.exc].cause
     IN  /\ top.pc = "cause"
         /\ IF link # 0 /\ not_seen(link, seen)
            THEN LET c == Called(stack, heap, seen, link, "cause")
                 IN  /\ stack' = c.stack
                     /\ heap' = c.heap
                     /\ seen' = c.seen
                     /\ hist' = [Visit(hist, link, c.entered)
                                  EXCEPT !.followed[top.exc] = @ \cup {"cause"}]
            ELSE /\ stack' = [stack EXCEPT ![Len(stack)].pc = "context"]
                 /\ hist' = [hist EXCEPT !.steps = @ + 1]
                 /\ UNCHANGED << heap, seen >>
  /\ UNCHANGED << cfg, err, pc, scrubbed_err, sink, raised, orig >>
  /\ PureUnchanged

\* lines 191-199
FollowContext ==
  /\ pc = "scrub" /\ stack # <<>>
  /\ LET top == stack[Len(stack)]
         link == heap[top.exc].context
     IN  /\ top.pc = "context"
         /\ IF link # 0 /\ not_seen(link, seen)
            THEN LET c == Called(stack, heap, seen, link, "context")
                 IN  /\ stack' = c.stack
                     /\ heap' = c.heap
                     /\ seen' = c.seen
                     /\ hist' = [Visit(hist, link, c.entered)
                                  EXCEPT !.followed[top.exc] = @ \cup {"context"}]
            ELSE /\ stack' = [stack EXCEPT ![Len(stack)].pc = "attrs"]
                 /\ hist' = [hist EXCEPT !.steps = @ + 1]
                 /\ UNCHANGED << heap, seen >>
  /\ UNCHANGED << cfg, err, pc, scrubbed_err, sink, raised, orig >>
  /\ PureUnchanged

\* lines 201-229: the keep decision, the loop over the attributes and the
\* return, with the statement of the caller that receives the result
ScrubAttributes ==
  /\ pc = "scrub" /\ stack # <<>>
  /\ LET top == stack[Len(stack)]
         n == top.exc
         node == heap[n]
         k == keep_decision(cfg.keep_message, node, cfg.allow_list)
         rest == SubSeq(stack, 1, Len(stack) - 1)
     IN
     /\ top.pc = "attrs"
     /\ IF ~k.ok
        THEN \* re.error leaves scrub_exception and the emitter
             /\ raised' = [kind |-> "second", node |-> 0, exc |-> k.exc]
             /\ pc' = "done"
             /\ stack' = <<>>
             /\ hist' = [hist EXCEPT !.steps = @ + 1]
             /\ UNCHANGED << heap, scrubbed_err >>
        ELSE
          LET r == scrub_attributes(node, cfg.prefix, cfg.scrub_message, k.v)
              h1 == [heap EXCEPT ![n].attrs = r.attrs]
              h2 == IF r.kind = "replaced"
                    THEN Append(h1, new_exception(cfg.prefix, r.failure.exc,
                                                  r.failure.attr, node))
                    ELSE h1
              result == IF r.kind = "replaced" THEN Len(h2) ELSE n
              ret == Returned(rest, h2, top, result)
              done == [hist EXCEPT
                         !.keep[n] = IF k.v THEN "keep" ELSE "scrub",
                         !.written[n] = r.written,
                         !.skipped[n] = r.skipped,
                         !.failure[n] = r.failure,
                         !.steps = @ + 1]
          IN
          IF r.kind = "raised"
          THEN \* the error of the getter leaves scrub_exception and the emitter
               /\ raised' = [kind |-> "second", node |-> 0, exc |-> r.failure.exc]
               /\ pc' = "done"
               /\ stack' = <<>>
               /\ heap' = h1
               /\ hist' = done
               /\ UNCHANGED scrubbed_err
          ELSE /\ heap' = ret.heap
               /\ stack' = ret.stack
               /\ hist' = [done EXCEPT !.returned[n] = TRUE,
                                       !.replaced_by[n] =
                                          IF r.kind = "replaced" THEN result ELSE 0]
               /\ scrubbed_err' = IF ret.top THEN result ELSE scrubbed_err
               /\ pc' = IF ret.top THEN "print" ELSE pc
               /\ UNCHANGED raised
  /\ UNCHANGED << cfg, err, seen, sink, orig >>
  /\ PureUnchanged

(***************************************************************************)
(* The emitter, lines 281-294.  TracebackException.from_exception renders  *)
(* an error after the error it was caused by, or else after its context    *)
(* unless that is suppressed, and renders no error twice.                  *)
(***************************************************************************)
CAUSE_MESSAGE ==
  << <<>>,
     <<"The above exception was the direct cause of the following exception:">>,
     <<>> >>
CONTEXT_MESSAGE ==
  << <<>>,
     <<"During handling of the above exception, another exception occurred:">>,
     <<>> >>
TRACEBACK_HEADER == << <<"Traceback (most recent call last):">> >>
TIMESTAMP == <<"YYYY-MM-DD HH:MM:SS">>

\* one entry of stack.format(): the place of the frame and its code line
FrameEntry(code) == << <<"File", "line", "in">>, code >>

\* format_exception_only()
ExceptionOnly(node) ==
  IF StrOf(node) = <<>> THEN << node.type >>
  ELSE << node.type \o <<":", " ">> \o StrOf(node) >>

RECURSIVE Chain(_, _, _)
\* the TracebackException of error n: its entries, and the errors seen
Chain(h, n, s) ==
  LET s1 == s \cup {n}
      node == h[n]
      hasCause == node.truthy /\ node.cause # 0 /\ node.cause \notin s1
      c == IF hasCause THEN Chain(h, node.cause, s1)
           ELSE [entries |-> <<>>, seen |-> s1]
      hasContext ==
        node.truthy /\ node.context # 0 /\ node.context \notin c.seen
      x == IF hasContext THEN Chain(h, node.context, c.seen)
           ELSE [entries |-> <<>>, seen |-> c.seen]
      before ==
        IF hasCause THEN c.entries \o <<CAUSE_MESSAGE>>
        ELSE IF hasContext /\ ~node.suppress
        THEN x.entries \o <<CONTEXT_MESSAGE>>
        ELSE <<>>
      own ==
        (IF node.tb = <<>> THEN <<>> ELSE <<TRACEBACK_HEADER>>)
        \o [i \in 1..Len(node.tb) |-> FrameEntry(node.tb[i])]
        \o <<ExceptionOnly(node)>>
  IN  [entries |-> before \o own, seen |-> x.seen]

\* tb_exception.format()
Format(h, n) == Chain(h, n, {}).entries

\* the test that finds no entry of the wrapper
is_wrapper_entry_never(execution) == FALSE

\* "return function(*func_args, **func_kwargs)" in execution
is_wrapper_entry(execution) ==
  \E i \in 1..Len(execution) : Contains(execution[i], WRAPPER_CALL_SITE)

\* the line with the time in front of the prefix
printed_line_time_first(prefix, add_timestamp, line) ==
  IF add_timestamp THEN TIMESTAMP \o <<" ">> \o prefix \o <<" ">> \o line
  ELSE prefix \o <<" ">> \o line

\* the line printed for one line of an entry
printed_line(prefix, add_timestamp, line) ==
  IF add_timestamp THEN prefix \o <<" ">> \o TIMESTAMP \o <<" ">> \o line
  ELSE prefix \o <<" ">> \o line

RECURSIVE Flatten(_)
Flatten(ss) == IF ss = <<>> THEN <<>> ELSE Head(ss) \o Flatten(Tail(ss))

\* the lines the loop of lines 283-292 prints
printed_lines(prefix, add_timestamp, entries) ==
  LET shown == SelectSeq(entries, LAMBDA e : ~is_wrapper_entry(e))
  IN  Flatten([i \in 1..Len(shown) |->
                 [j \in 1..Len(shown[i]) |->
                    printed_line(prefix, add_timestamp, shown[i][j])]])

\* lines 281-292
PrintTrace ==
  /\ pc = "print"
  /\ IF scrubbed_err = 0
     THEN \* TracebackException.from_exception(None)
          /\ raised' = [kind |-> "second", node |-> 0, exc |-> "AttributeError"]
          /\ pc' = "done"
          /\ UNCHANGED sink
     ELSE /\ sink' = sink \o printed_lines(cfg.prefix, cfg.add_timestamp,
                                           Format(heap, scrubbed_err))
          /\ pc' = "raise"
          /\ UNCHANGED raised
  /\ hist' = [hist EXCEPT !.steps = @ + 1]
  /\ UNCHANGED << cfg, heap, err, stack, seen, scrubbed_err, orig >>
  /\ PureUnchanged

\* the error the raise statement of line 294 raises
raise_target(scrubbed, original) == scrubbed

\* line 294
RaiseScrubbed ==
  /\ pc = "raise"
  /\ raised' = [kind |-> "reraise", node |-> raise_target(scrubbed_err, err),
                exc |-> ""]
  /\ pc' = "done"
  /\ hist' = [hist EXCEPT !.steps = @ + 1]
  /\ UNCHANGED << cfg, heap, err, stack, seen, scrubbed_err, sink, orig >>
  /\ PureUnchanged

Next ==
  \/ Call
  \/ FollowCause
  \/ FollowContext
  \/ ScrubAttributes
  \/ PrintTrace
  \/ RaiseScrubbed

Spec == Init /\ [][Next]_vars

(***************************************************************************)
(* The wrappers: the function wrapper of prefix_stack_trace, lines         *)
(* 325-349, the block wrapper PrefixStackTrace, lines 377-409, and the     *)
(* direct call of print_prefixed_stack_trace_and_raise with or without     *)
(* err.  The target raises error 1 or returns; a target that returns has   *)
(* no error objects.                                                       *)
(***************************************************************************)
Entries ==
  {e \in [kind : {"function", "block", "direct"}, disable : BOOLEAN,
          target : {"raises", "returns"}, explicit : BOOLEAN] :
     /\ e.kind = "direct" => ~e.disable /\ (e.target = "returns" => ~e.explicit)
     /\ e.kind # "direct" => e.explicit}

WrapperSampleNames ==
  {"ValueError", "ArithmeticError", "PublicValueError", "UnmodifiableError",
   "BrokenError", "FalsyError", "QuotingException"}

\* the graphs of one error, or of two where the second has no links
WrapperGraphs ==
  UNION {
    {Graph(n, names, cause, context) :
       names \in [1..n -> WrapperSampleNames],
       cause \in {c \in [1..n -> 0..n] : n = 2 => c[2] = 0},
       context \in {c \in [1..n -> 0..n] : n = 2 => c[2] = 0}} :
    n \in 1..MaxNodes \cap 1..2}

\* the traceback of error 1: the frame of the wrapper's call of the target
\* is in it when the function wrapper caught the error
raised_through(kind, g) ==
  [g EXCEPT ![1].tb = IF kind = "function"
                      THEN <<WRAPPER_CALL_SITE, USER_CALL_SITE>>
                      ELSE <<USER_CALL_SITE>>]

WrapperConfigs ==
  [prefix : {PREFIX}, scrub_message : {SCRUB_MESSAGE},
   keep_message : BOOLEAN, allow_list : {<<>>, <<<<"pickle">>>>},
   add_timestamp : BOOLEAN]

InitWrapper ==
  /\ cfg \in WrapperConfigs
  /\ entry \in Entries
  /\ IF entry.target = "returns" THEN heap = <<>>
     ELSE /\ heap \in {raised_through(entry.kind, g) : g \in WrapperGraphs}
          /\ Reachable(heap, 1) = Ids(heap)
  /\ exc_info = IF entry.kind = "direct" /\ entry.target = "raises"
                THEN 1 ELSE 0
  /\ err = IF entry.kind = "direct" /\ entry.explicit THEN 1 ELSE 0
  /\ pc = IF entry.kind = "direct" THEN "start" ELSE "enter"
  /\ stack = <<>>
  /\ seen = {}
  /\ scrubbed_err = 0
  /\ sink = <<>>
  /\ raised = NotRaised
  /\ orig = heap
  /\ hist = NoHist(heap)
  /\ tin = NoInput /\ tout = NoInput /\ ain = NoInput /\ aout = NoInput
  /\ returned_value = ""
  /\ LoggingIdle
  /\ first_pass = NoFirstPass /\ parked = NoParked /\ extractor = NoExtractor

\* the error of the target leaves the wrapper as it is
Propagated(n) == [kind |-> "original", node |-> n, exc |-> ""]

\* the callable the decorator hands back is the wrapper, whatever disable
is_wrapped_always(disable) == TRUE

\* line 349: return function if self.disable else wrapper
is_wrapped(disable) == ~disable

\* line 338: if caught_err
is_caught(e, h) == e # 0 /\ h[e].truthy

\* lines 327-349: a call of what prefix_stack_trace(...)(function) returned
WrapperCall ==
  /\ pc = "enter" /\ entry.kind = "function"
  /\ IF entry.target = "returns"
     THEN \* line 334, or the function itself
          /\ returned_value' = "result"
          /\ pc' = "done"
          /\ UNCHANGED << err, raised >>
     ELSE IF ~is_wrapped(entry.disable)
     THEN /\ raised' = Propagated(1)
          /\ pc' = "done"
          /\ UNCHANGED << err, returned_value >>
     ELSE IF is_caught(1, heap)
     THEN \* lines 339-347
          /\ err' = 1
          /\ pc' = "start"
          /\ UNCHANGED << raised, returned_value >>
     ELSE \* the wrapper falls off its end
          /\ returned_value' = "None"
          /\ pc' = "done"
          /\ UNCHANGED << err, raised >>
  /\ UNCHANGED << cfg, heap, stack, seen, scrubbed_err, sink, orig, hist,
                  tin, tout, ain, aout, entry, exc_info, logging_vars,
                  first_pass, parked, extractor >>

\* line 400: exc_type and not self.disable
is_emitting(exc_type, disable) == exc_type /\ ~disable

\* lines 399-409: the with block is left; __exit__ returns None, so the
\* error of the block, if any, goes on propagating
BlockExit ==
  /\ pc = "enter" /\ entry.kind = "block"
  /\ IF is_emitting(entry.target = "raises", entry.disable)
     THEN /\ err' = 1
          /\ pc' = "start"
          /\ UNCHANGED << raised, returned_value >>
     ELSE IF entry.target = "raises"
     THEN /\ raised' = Propagated(1)
          /\ pc' = "done"
          /\ UNCHANGED << err, returned_value >>
     ELSE /\ returned_value' = "None"
          /\ pc' = "done"
          /\ UNCHANGED << err, raised >>
  /\ UNCHANGED << cfg, heap, stack, seen, scrubbed_err, sink, orig, hist,
                  tin, tout, ain, aout, entry, exc_info, logging_vars,
                  first_pass, parked, extractor >>

NextWrapper ==
  \/ WrapperCall
  \/ BlockExit
  \/ Call
  \/ FollowCause
  \/ FollowContext
  \/ ScrubAttributes
  \/ PrintTrace
  \/ RaiseScrubbed

SpecWrapper == InitWrapper /\ [][NextWrapper]_vars

(***************************************************************************)
(* The transformer and the classifier on their own: every input within the *)
(* bounds is drawn, and the function is applied to it.                     *)
(***************************************************************************)
EmitterIdle ==
  /\ cfg = [prefix |-> PREFIX, scrub_message |-> SCRUB_MESSAGE,
            keep_message |-> FALSE, allow_list |-> <<>>,
            add_timestamp |-> FALSE]
  /\ heap = <<>> /\ err = 0 /\ pc = "idle" /\ stack = <<>> /\ seen = {}
  /\ scrubbed_err = 0 /\ sink = <<>> /\ raised = NotRaised /\ orig = <<>>
  /\ hist = NoHist(<<>>)
  /\ entry = DirectEntry /\ exc_info = 0 /\ returned_value = ""
  /\ first_pass = NoFirstPass /\ parked = NoParked

Idle == EmitterIdle /\ extractor = NoExtractor

EmitterUnchanged ==
  UNCHANGED << cfg, heap, err, pc, stack, seen, scrubbed_err, sink, raised,
               orig, hist, entry, exc_info, returned_value, first_pass,
               parked >>

IdleUnchanged == EmitterUnchanged /\ UNCHANGED extractor

InitTransformer ==
  /\ Idle
  /\ tin \in [used : {TRUE}, keep : BOOLEAN, o : TransformerInputs]
  /\ tout = NoInput /\ ain = NoInput /\ aout = NoInput
  /\ LoggingIdle

\* new_value = transformer(value)
Transform ==
  /\ tin.used /\ ~tout.used
  /\ tout' = [used |-> TRUE,
              r |-> attribute_transformer(cfg.prefix, cfg.scrub_message,
                                          tin.keep, tin.o)]
  /\ UNCHANGED << tin, ain, aout, logging_vars >>
  /\ IdleUnchanged

NextTransformer == Transform

SpecTransformer == InitTransformer /\ [][NextTransformer]_vars

AllowedTypes ==
  {ValueError, ArithmeticError, PublicValueError, PublicIOError,
   FileNotFoundError}
AllowedMessages ==
  {<<>>, <<"secret">>, <<"Pickle", "jar">>, <<"not", "a", "value", "error">>}
Patterns ==
  {<<"pickle">>, <<"VALUE", "error">>, <<"arithmetic">>, <<"geometry">>,
   <<"file", "not", "found">>}
PatternLists == UNION {[1..n -> Patterns] : n \in 0..MaxPatterns}

InitAllowed ==
  /\ Idle
  /\ ain \in [used : {TRUE}, name : AllowedTypes, str : AllowedMessages,
              allow_list : PatternLists]
  /\ aout = NoInput /\ tin = NoInput /\ tout = NoInput
  /\ LoggingIdle

\* is_exception_allowed(exception, allow_list)
Classify ==
  /\ ain.used /\ ~aout.used
  /\ aout' = [used |-> TRUE,
              r |-> is_exception_allowed(ain.name, ain.str, ain.allow_list)]
  /\ UNCHANGED << ain, tin, tout, logging_vars >>
  /\ IdleUnchanged

NextAllowed == Classify

SpecAllowed == InitAllowed /\ [][NextAllowed]_vars

(***************************************************************************)
(* Properties.                                                             *)
(***************************************************************************)
Range(f) == {f[i] : i \in DOMAIN f}

\* the Public* error family
PublicFamily ==
  {PublicValueError, PublicRuntimeError, PublicArgumentError, PublicKeyError,
   PublicTypeError, PublicIndexError, PublicNotImplementedError,
   PublicFileNotFoundError, PublicIOError}

\* some pattern of ps matches the type name or the rendered message
SomeMatch(ps, name, str) ==
  \E p \in ps : re_search(p, name) \/ re_search(p, str)

Transformed(x) ==
  attribute_transformer(cfg.prefix, cfg.scrub_message, tin.keep, x)

\* the first member whose transformation raises
FirstFailure(xs) ==
  LET bad == {i \in 1..Len(xs) : ~Transformed(xs[i]).ok}
  IN  CHOOSE i \in bad : \A j \in bad : i <= j

TextAndAtomsTransformed ==
  LET o == tin.o
      r == tout.r
  IN  /\ o.k = "str" =>
           /\ r.ok
           /\ r.v = Str(cfg.prefix \o
                        (IF tin.keep THEN o.s ELSE cfg.scrub_message))
      /\ o.k = "callable" => r.ok /\ r.v = o
      /\ o.k \in {"int", "none"} =>
           r.ok /\ r.v = (IF tin.keep THEN o ELSE NoneV)

NonDunder(node) == DOMAIN node.attrs \ {"__doc__"}

\* the attributes of an error that getattr returns
Readable(node) == {a \in NonDunder(node) : node.attrs[a].get = ""}

Position(node, a) ==
  CHOOSE i \in 1..Len(Dir(node.attrs)) : Dir(node.attrs)[i] = a

\* the keep decision the policy asks for error n, from the error as handed in
KeepByPolicy(n) ==
  \/ cfg.keep_message
  \/ SomeMatch(Range(cfg.allow_list) \cup PublicFamily,
               orig[n].type, StrOf(orig[n]))

PolicyValue(n, a) ==
  attribute_transformer(cfg.prefix, cfg.scrub_message, KeepByPolicy(n),
                        orig[n].attrs[a].val)

\* attribute a of error n cannot be transformed or cannot be written
CannotScrub(n, a) == orig[n].attrs[a].set # "" \/ ~PolicyValue(n, a).ok

\* the emitter has the result of the sanitizer
Sanitized == pc \in {"print", "raise", "done"} /\ scrubbed_err # 0

IsReplacement(m) == m > Len(orig)

\* C1: with keep_message false and an empty allow_list no printed line
\* contains the original message text of an error of the graph (of an
\* error that the built-in Public* names do not allow).
C1_NoOriginalMessagePrinted ==
  (~cfg.keep_message /\ cfg.allow_list = <<>>) =>
    \A i \in 1..Len(sink) : \A n \in Ids(orig) :
      (/\ StrOf(orig[n]) # <<>>
       /\ ~SomeMatch(PublicFamily, orig[n].type, StrOf(orig[n])))
        => ~Contains(sink[i], StrOf(orig[n]))

\* C2: after scrub_exception returns, every error reachable from the result
\* through cause and context links is a scrub-failure replacement or has
\* had every attribute it can produce rewritten.
C2_EveryReachableErrorRewritten ==
  Sanitized =>
    \A m \in Reachable(heap, scrubbed_err) :
      \/ IsReplacement(m)
      \/ \A a \in Readable(orig[m]) : a \in hist.written[m]

\* a step of the call is possible: the guards of the actions of Next
CanStep ==
  \/ pc \in {"start", "print", "raise"}
  \/ /\ pc = "scrub" /\ stack # <<>>
     /\ stack[Len(stack)].pc \in {"cause", "context", "attrs"}

\* C3: scrub_exception terminates on every graph: an error is in _seen
\* while it has an activation, no error gets a second activation, the
\* activations are no more than the errors, the call takes at most three
\* steps for each error and three of its own, and it can always take a
\* step until it has raised or returned.
C3_TerminatesOnEveryGraph ==
  /\ \A i \in 1..Len(stack) : stack[i].exc \in seen
  /\ \A n \in Ids(orig) : hist.visits[n] <= 1
  /\ Len(stack) <= Len(orig)
  /\ hist.steps <= 3 * Len(orig) + 3
  /\ pc # "done" => CanStep

\* two errors that are each other's cause were sanitized and one was raised
C3_Witness ==
  /\ pc = "done" /\ raised.kind = "reraise"
  /\ Len(orig) = 2 /\ orig[1].cause = 2 /\ orig[2].cause = 1
  /\ hist.visits[1] = 1 /\ hist.visits[2] = 1

C5_OnlyTheSanitizedErrorIsRaised ==
  pc = "done" => raised.kind = "reraise" /\ raised.node = scrubbed_err

\* C6: when reading an attribute raises, whatever it raises, the attribute
\* is skipped: the failure ends neither the loop nor the call, the error is
\* not replaced for it, and every other attribute is still transformed.
C6_UnreadableAttributeSkipped ==
  \A n \in Ids(orig) :
    (/\ hist.keep[n] # "unset"
     /\ Readable(orig[n]) # NonDunder(orig[n])
     /\ \A a \in Readable(orig[n]) : ~CannotScrub(n, a))
      => /\ hist.failure[n] = NoFailure
         /\ hist.returned[n]
         /\ hist.replaced_by[n] = 0
         /\ hist.written[n] = Readable(orig[n])

\* C8: the keep decision of each error is keep_message or the allow-list
\* match of that error, from its own type name and original message, and
\* every attribute written on the error was transformed under it.
C8_KeepDecidedPerError ==
  \A n \in Ids(orig) :
    hist.keep[n] # "unset" =>
      /\ (hist.keep[n] = "keep") = KeepByPolicy(n)
      /\ \A a \in hist.written[n] :
           heap[n].attrs[a].val = PolicyValue(n, a).v

\* the allow-list matches the cause only: its message is kept and the
\* message of the outer error is scrubbed
C8_Witness ==
  /\ pc = "done" /\ ~cfg.keep_message
  /\ Len(orig) = 2 /\ orig[1].cause = 2
  /\ hist.keep[1] = "scrub" /\ hist.keep[2] = "keep"
  /\ orig[2].type \notin PublicFamily
  /\ StrOf(heap[2]) = cfg.prefix \o StrOf(orig[2])
  /\ StrOf(heap[1]) = cfg.prefix \o cfg.scrub_message

\* C10 as amended: when no attribute of the error fails to be transformed
\* or written, the error re-raised has exactly the type of the error
\* handed in.
C10_TypePreservedWhenScrubbed ==
  (/\ raised.kind = "reraise"
   /\ \A a \in Readable(orig[err]) : ~CannotScrub(err, a))
    => /\ raised.node = err
       /\ heap[raised.node].type = orig[err].type

\* a scrubbed error was re-raised with its type
C10_Witness ==
  /\ raised.kind = "reraise" /\ hist.keep[err] = "scrub"
  /\ hist.written[err] # {} /\ hist.skipped[err] # {}
  /\ heap[raised.node].type = orig[err].type

\* C10 as stated: when every attribute write succeeds, the error re-raised
\* has exactly the type of the error handed in.
C10_TypePreservedWhenWritesSucceed ==
  (/\ raised.kind = "reraise"
   /\ \A a \in Readable(orig[err]) : orig[err].attrs[a].set = "")
    => heap[raised.node].type = orig[err].type

(***************************************************************************)
(* Properties of the wrappers.                                             *)
(***************************************************************************)
\* a wrapper that is not disabled, around a target that raises error 1
WrappedFailure ==
  /\ entry.kind \in {"function", "block"}
  /\ ~entry.disable
  /\ entry.target = "raises"

\* the type name is matched by the allow-list or by the Public* family
TypeAllowed(n) ==
  SomeMatch(Range(cfg.allow_list) \cup PublicFamily, orig[n].type, <<>>)

\* some attribute of error n cannot be transformed or written
FailsToScrub(n) == \E a \in Readable(orig[n]) : CannotScrub(n, a)

\* C11 as amended: the error a wrapper re-raises has the type of the error
\* of the wrapped operation when no attribute of that error fails to be
\* transformed or written, and is a PublicRuntimeError when one does, in
\* both cases whether or not the type is allow-listed or public.
C11_TypeObservedByCaller ==
  (WrappedFailure /\ raised.kind = "reraise") =>
    heap[raised.node].type =
      IF FailsToScrub(1) THEN PublicRuntimeError ELSE orig[1].type

\* an error that is neither allow-listed nor public, with its message
\* scrubbed, reaches the caller with its own type
C11_Witness ==
  /\ WrappedFailure /\ raised.kind = "reraise"
  /\ ~cfg.keep_message /\ ~TypeAllowed(1) /\ hist.keep[1] = "scrub"
  /\ orig[1].type = ValueError
  /\ heap[raised.node].type = ValueError

\* C11 as stated: the caller observes the type of the error when that type
\* is allow-listed or public, and a generic runtime error when it is
\* neither and keep_message is false.
C11_GenericErrorUnlessAllowed ==
  (WrappedFailure /\ raised.kind = "reraise") =>
    IF TypeAllowed(1)
    THEN heap[raised.node].type = orig[1].type
    ELSE ~cfg.keep_message => heap[raised.node].type = PublicRuntimeError

\* the message of error n is its single text argument
SingleTextMessage(n) ==
  /\ orig[n].str = "args"
  /\ Len(orig[n].attrs["args"].val.e) = 1
  /\ orig[n].attrs["args"].val.e[1].k = "str"

\* C12 as amended: when the error of the wrapped operation has a single
\* text argument as its message and is re-raised without being replaced,
\* the message of the error re-raised is the prefix followed by the
\* original message when keep_message is true or the error is allowed, and
\* the prefix followed by scrub_message otherwise.
C12_MessageOfReraisedError ==
  (/\ WrappedFailure /\ raised.kind = "reraise"
   /\ SingleTextMessage(1) /\ ~FailsToScrub(1))
    => StrOf(heap[raised.node]) =
         cfg.prefix \o (IF KeepByPolicy(1) THEN StrOf(orig[1])
                        ELSE cfg.scrub_message)

\* a message the allow-list matches is re-raised behind the prefix while
\* keep_message is false
C12_Witness ==
  /\ WrappedFailure /\ raised.kind = "reraise"
  /\ ~cfg.keep_message /\ cfg.allow_list # <<>>
  /\ orig[1].type = ArithmeticError
  /\ StrOf(heap[raised.node]) = cfg.prefix \o <<"Pickle", "jar">>

\* C12 as stated: the message of the error re-raised contains the prefix,
\* contains the original message exactly when keep_message is true or the
\* error is allowed, and contains scrub_message when it is not kept.
C12_MessageKeptIffAllowed ==
  (WrappedFailure /\ raised.kind = "reraise") =>
    LET msg == StrOf(heap[raised.node])
    IN  /\ Contains(msg, cfg.prefix)
        /\ StrOf(orig[1]) # <<>> =>
             (Contains(msg, StrOf(orig[1])) <=> KeepByPolicy(1))
        /\ ~KeepByPolicy(1) => Contains(msg, cfg.scrub_message)

\* C13: the function wrapper that is not disabled ends a call whose target
\* raised by raising an error, after it printed the trace, and never by
\* returning; it ends a call whose target returned by returning the result
\* of the target, with nothing printed.
C13_WrapperNeverSwallows ==
  (entry.kind = "function" /\ ~entry.disable /\ pc = "done") =>
    IF entry.target = "raises"
    THEN raised.kind # "none" /\ returned_value = "" /\ sink # <<>>
    ELSE returned_value = "result" /\ raised = NotRaised /\ sink = <<>>

\* C14: with disable true neither wrapper reaches the emitter: nothing is
\* printed, no error object is changed, and the error of the target, the
\* same object, is what the caller gets.
C14_DisabledBypassesSanitizer ==
  entry.disable =>
    /\ sink = <<>>
    /\ heap = orig
    /\ hist = NoHist(orig)
    /\ pc \in {"enter", "done"}
    /\ (pc = "done" /\ entry.target = "raises") => raised = Propagated(1)
    /\ (pc = "done" /\ entry.target = "returns") => raised = NotRaised

\* a disabled block let an error with a read-only attribute and a cause
\* through as it was
C14_Witness ==
  /\ entry.disable /\ entry.kind = "block" /\ pc = "done"
  /\ raised = Propagated(1)
  /\ heap[1].type = UnmodifiableError /\ heap[1].cause = 2
  /\ heap = orig /\ sink = <<>>

\* C15: the block wrapper prints nothing and raises nothing on a clean
\* exit; when an error leaves the block and disable is false the trace is
\* printed and an error is raised out of the block; an error raised in the
\* block is never suppressed.
C15_BlockNeverSuppresses ==
  (entry.kind = "block" /\ pc = "done") =>
    /\ entry.target = "returns" => sink = <<>> /\ raised = NotRaised
    /\ (entry.target = "raises" /\ ~entry.disable) =>
         sink # <<>> /\ raised.kind # "none"
    /\ entry.target = "raises" => raised.kind # "none"

(***************************************************************************)
(* Properties of the printed lines.                                        *)
(***************************************************************************)
\* the lines of the rendering of the sanitized error
RenderedLines ==
  IF scrubbed_err = 0 THEN {}
  ELSE UNION {Range(e) : e \in Range(Format(heap, scrubbed_err))}

\* line without its first n words
Drop(line, n) == SubSeq(line, n + 1, Len(line))

\* C16: every printed line is the prefix, one space, then, only when
\* add_timestamp is true, the timestamp and one space, then one line of the
\* rendering; no line lacks the prefix, and without add_timestamp nothing
\* stands between the prefix and the rendered line.
C16_PrintedLineFormat ==
  \A i \in 1..Len(sink) :
    LET line == sink[i]
        n == Len(cfg.prefix)
        t == Len(TIMESTAMP)
    IN  /\ Len(line) >= n + 1
        /\ SubSeq(line, 1, n) = cfg.prefix
        /\ line[n + 1] = " "
        /\ IF cfg.add_timestamp
           THEN /\ Len(line) >= n + t + 2
                /\ SubSeq(line, n + 2, n + t + 1) = TIMESTAMP
                /\ line[n + t + 2] = " "
                /\ Drop(line, n + t + 2) \in RenderedLines
           ELSE Drop(line, n + 1) \in RenderedLines

\* a trace of two errors was printed with timestamps
C16_Witness ==
  /\ cfg.add_timestamp /\ pc = "done" /\ Len(orig) = 2
  /\ Len(sink) > 4
  /\ \E i \in 1..Len(sink) :
       sink[i] = cfg.prefix \o <<" ">> \o TIMESTAMP \o <<" ">>
                 \o Head(TRACEBACK_HEADER)

\* the entry carries the text of the wrapper's call site
CarriesMarker(e) == \E l \in Range(e) : Contains(l, WRAPPER_CALL_SITE)

\* the entries without the entries that carry the marker
RECURSIVE Visible(_)
Visible(es) ==
  IF es = <<>> THEN <<>>
  ELSE IF CarriesMarker(Head(es)) THEN Visible(Tail(es))
  ELSE <<Head(es)>> \o Visible(Tail(es))

\* the lines of the entries, one after the other
RECURSIVE LinesOf(_)
LinesOf(es) == IF es = <<>> THEN <<>> ELSE Head(es) \o LinesOf(Tail(es))

AmbientCall == entry.kind = "direct" /\ ~entry.explicit /\ exc_info # 0

\* C18: called without err while an error is being handled, the emitter
\* works on that error as on an error handed in: after its first step err
\* is that error, the sanitizer starts on it with it alone in _seen, the
\* result of the sanitizer is that error or its replacement, and the error
\* re-raised is that result, after its trace was printed.
C18_AmbientErrorIsUsed ==
  AmbientCall =>
    /\ pc # "start" => err = exc_info
    /\ (pc = "scrub" /\ hist.steps = 1) =>
         stack = <<Frame(exc_info, "top")>> /\ seen = {exc_info}
    /\ (pc # "start" /\ heap[exc_info].truthy) => hist.visits[exc_info] = 1
    /\ scrubbed_err # 0 =>
         scrubbed_err = IF hist.replaced_by[exc_info] # 0
                        THEN hist.replaced_by[exc_info] ELSE exc_info
    /\ raised.kind = "reraise" =>
         /\ raised.node = scrubbed_err /\ scrubbed_err # 0
         /\ sink # <<>>
         /\ sink = printed_lines(cfg.prefix, cfg.add_timestamp,
                                 Format(heap, scrubbed_err))

\* the error being handled was sanitized, printed and re-raised
C18_Witness ==
  /\ AmbientCall /\ raised.kind = "reraise"
  /\ err = exc_info /\ raised.node = exc_info
  /\ hist.keep[exc_info] = "scrub" /\ hist.written[exc_info] # {}
  /\ sink # <<>>

\* the emitter was called in this run
EmitterCalled == entry.kind = "direct" \/ hist.steps > 0

\* C19: in every call of the emitter the sanitizer has returned before the
\* first line is written, every line is written before the error is
\* raised, the call ends by raising, and what it raises is the error the
\* sanitizer returned, with the trace of that error written.
C19_SanitizeThenPrintThenRaise ==
  EmitterCalled =>
    /\ sink # <<>> =>
         stack = <<>> /\ scrubbed_err # 0 /\ pc \in {"raise", "done"}
    /\ raised # NotRaised => pc = "done"
    /\ pc = "done" =>
         /\ raised.kind = "reraise" /\ raised.node = scrubbed_err
         /\ sink = printed_lines(cfg.prefix, cfg.add_timestamp,
                                 Format(heap, scrubbed_err))

\* the order of the steps alone: it holds in every run of the emitter
C19_OrderOfSteps ==
  EmitterCalled =>
    /\ sink # <<>> =>
         stack = <<>> /\ scrubbed_err # 0 /\ pc \in {"raise", "done"}
    /\ raised # NotRaised => pc = "done"
    /\ pc = "done" => raised # NotRaised

(***************************************************************************)
(* compliant_logging/logging.py: the global prefix, CompliantLogger and    *)
(* enable_compliant_logging.  A logger is known by its name and its class; *)
(* a record by the logger and the arguments of the call that made it and   *)
(* by the fields it got from extra.                                        *)
(***************************************************************************)
\* the members of DataCategory
DataCategory == {"PRIVATE", "PUBLIC"}

\* the category argument left out of a log call
Omitted == "omitted"

\* debug, info, warning, error and critical of a logger
Levels == {"debug", "info", "warning", "error", "critical"}

\* logging.getLogger() and logging.getLogger("foo")
LoggerNames == {"root", "foo"}

\* the prefixes handed to enable_compliant_logging and to set_prefix
Prefixes == {PREFIX, <<"Other:">>}

\* the extra argument of a log call: left out, or a dict
Extras ==
  { [given |-> FALSE, items |-> {}],
    [given |-> TRUE, items |-> {}],
    [given |-> TRUE, items |-> {<<"test_name", <<"Test">>>>}],
    [given |-> TRUE, items |-> {<<"prefix", <<"mine">>>>}] }

\* dict.update({key: value})
update(items, key, value) ==
  {it \in items : it[1] # key} \cup {<<key, value>>}

\* the default of the parameter category of _log
category_parameter(category) ==
  IF category = Omitted THEN "PRIVATE" ELSE category

\* p of _log for every category alike
prefix_of_any_category(category, prefix) == prefix

\* p of _log
prefix_of_category(category, prefix) ==
  IF category_parameter(category) = "PUBLIC" THEN prefix ELSE <<>>

\* CompliantLogger._log: the extra it hands to Logger._log
CompliantLogger_log(category, extra, prefix) ==
  LET p == prefix_of_category(category, prefix) IN
  IF extra.given /\ extra.items # {}
  THEN update(extra.items, "prefix", p)
  ELSE {<<"prefix", p>>}

\* get_prefix()
get_prefix == _PREFIX

\* the functions on the stack when the program logs: the function that
\* calls the log method, and its caller
CALLER_FRAMES == <<"user_function", "outer">>

\* Logger.findCaller(stack_info, stacklevel)
findCaller(frames, stacklevel) ==
  frames[IF stacklevel <= Len(frames) THEN stacklevel ELSE Len(frames)]

\* lines 73-91: super()._log is called from _log with the stacklevel of
\* the caller
forwarded_frames(frames) == <<"_log">> \o frames

\* the outcome of log.<level>(msg, extra=extra[, category=category]) on the
\* logger ref: _log of CompliantLogger, or of the logger class it derives
\* from, which knows no category and takes extra as it is given
\* The record names the function findCaller finds: the frame stacklevel
\* frames up from the log method, frames of the logging module of the
\* standard library left out.  _log of CompliantLogger is a frame of its
\* own between the log method and Logger._log.
log_call(ref, level, category, extra, stacklevel) ==
  LET made(fields, frames) ==
        [outcome |-> "record", logger |-> ref, level |-> level,
         category |-> category, fields |-> fields, extra |-> extra,
         stacklevel |-> stacklevel,
         funcName |-> findCaller(frames, stacklevel),
         enabled |-> logger_class = "CompliantLogger",
         registered |-> get_prefix]
  IN  IF ref.cls = "CompliantLogger"
      THEN made(CompliantLogger_log(category, extra, get_prefix),
                forwarded_frames(CALLER_FRAMES))
      ELSE IF category # Omitted
      THEN [made({}, CALLER_FRAMES) EXCEPT !.outcome = "TypeError"]
      ELSE made(extra.items, CALLER_FRAMES)

\* the handlers the program makes itself
UserHandlers == {<<"user", 1>>, <<"user", 2>>}

\* the options force and handlers of enable_compliant_logging, which reach
\* logging.basicConfig: force absent, True or False; handlers absent or a
\* list
Kwargs ==
  { [force |-> f, given |-> g, hs |-> h] :
      f \in {"absent", "True", "False"}, g \in BOOLEAN,
      h \in {{}, {<<"user", 1>>}, UserHandlers} }

\* enable_compliant_logging(prefix) with no option
DefaultKwargs == {[force |-> "absent", given |-> FALSE, hs |-> {}]}

\* _logging_basic_config_set_warning.splitlines()
WARNING_LINES ==
  << <<>>,
     <<"****">>,
     <<"The root logger already has handlers set!", "As a result,">>,
     <<"library is undefined.">>,
     <<"call logging.basicConfig(force=True)">>,
     <<"handlers.">>,
     <<"for more information.">>,
     <<"****">> >>

InitLogging ==
  /\ Idle
  /\ tin = NoInput /\ tout = NoInput /\ ain = NoInput /\ aout = NoInput
  /\ _PREFIX = None
  /\ logger_class = "Logger"
  /\ manager = {[name |-> "root", cls |-> "Logger"]}
  /\ held = {}
  /\ records = <<>>
  /\ version = 8
  /\ handlers = {}
  /\ stderr = <<>>
  /\ last_call = [n |-> 0, prefix |-> None, force |-> "absent",
                  given |-> FALSE, hs |-> {}, before |-> {}, fresh |-> FALSE]
  /\ NoThreads

OtherUnchanged ==
  IdleUnchanged /\ UNCHANGED << tin, tout, ain, aout, thread_vars >>

set_prefix ==
  /\ \E prefix \in Prefixes : _PREFIX' = prefix
  /\ last_call' = [last_call EXCEPT !.fresh = FALSE]
  /\ UNCHANGED << logger_class, manager, held, records, version, handlers,
                  stderr >>
  /\ OtherUnchanged

\* lines 138-141 write the warning for no root logger
warns_never(hs) == FALSE

\* line 138: len(logging.root.handlers) > 0
warns(hs) == hs # {}

\* lines 143-144 and force of logging.basicConfig
forced(kw, v) == IF kw.force = "absent" THEN v >= 8 ELSE kw.force = "True"

\* logging.basicConfig keeps every handler of the root
basicConfig_keeping(hs, force, kw, made) ==
  hs \cup (IF kw.given THEN kw.hs ELSE {made})

\* logging.basicConfig(**kwargs) on a root logger with the handlers hs: the
\* handlers the root logger has after it; made is the handler it makes
\* when it is given none
basicConfig(hs, force, kw, made) ==
  LET kept == IF force THEN {} ELSE hs IN
  IF kept # {} THEN kept
  ELSE IF kw.given THEN kw.hs ELSE {made}

\* set_prefix(prefix), the warning, setLoggerClass(CompliantLogger), a new
\* root logger of that class with the handlers of the old one, a new
\* manager and logging.basicConfig
enable_compliant_logging(K) ==
  /\ last_call.n < MaxCalls
  /\ \E prefix \in Prefixes, kw \in K :
       /\ version < 8 => kw.force = "absent"
       /\ _PREFIX' = prefix
       /\ stderr' = IF warns(handlers)
                    THEN [i \in 1..Len(WARNING_LINES) |->
                            prefix \o WARNING_LINES[i]]
                    ELSE <<>>
       /\ handlers' = basicConfig(handlers, forced(kw, version), kw,
                                  <<"basic", last_call.n + 1>>)
       /\ last_call' = [n |-> last_call.n + 1, prefix |-> prefix,
                        force |-> kw.force, given |-> kw.given,
                        hs |-> kw.hs, before |-> handlers, fresh |-> TRUE]
  /\ logger_class' = "CompliantLogger"
  /\ manager' = {[name |-> "root", cls |-> "CompliantLogger"]}
  /\ UNCHANGED << held, records, version >>
  /\ OtherUnchanged

\* logging.getLogger(name): the logger of that name of the manager, made
\* of the current logger class when there is none
getLogger ==
  /\ \E name \in LoggerNames :
       LET known == {l \in manager : l.name = name}
           ref == IF known # {} THEN CHOOSE l \in known : TRUE
                  ELSE [name |-> name, cls |-> logger_class]
       IN  /\ manager' = manager \cup {ref}
           /\ held' = held \cup {ref}
  /\ UNCHANGED << _PREFIX, logger_class, records, version, handlers, stderr,
                  last_call >>
  /\ OtherUnchanged

\* CompliantLogger(name), lines 52-53: a logger of the class made by hand,
\* which no manager knows
CompliantLogger_init ==
  /\ \E name \in LoggerNames :
       held' = held \cup {[name |-> name, cls |-> "CompliantLogger"]}
  /\ UNCHANGED << _PREFIX, logger_class, manager, records, version, handlers,
                  stderr, last_call >>
  /\ OtherUnchanged

Log ==
  /\ Len(records) < MaxRecords
  /\ \E ref \in held, level \in Levels, stacklevel \in 1..2,
        category \in DataCategory \cup {Omitted}, extra \in Extras :
       records' = Append(records,
                         log_call(ref, level, category, extra, stacklevel))
  /\ UNCHANGED << _PREFIX, logger_class, manager, held, version, handlers,
                  stderr, last_call >>
  /\ OtherUnchanged

NextLogging ==
  \/ set_prefix \/ enable_compliant_logging(DefaultKwargs) \/ getLogger
  \/ CompliantLogger_init \/ Log

SpecLogging == InitLogging /\ [][NextLogging]_vars

\* the prefix field of a record, <<"(none)">> when it has none
PrefixField(r) ==
  LET fs == {it \in r.fields : it[1] = "prefix"} IN
  IF fs = {} THEN <<"(none)">> ELSE (CHOOSE it \in fs : TRUE)[2]

\* the prefix field the category of the call asks for
PrefixAsked(r) == IF r.category = "PUBLIC" THEN r.registered ELSE <<>>

C21_PrefixIsAlwaysAString ==
  \A i \in 1..Len(records) :
    (records[i].logger.cls = "CompliantLogger"
       /\ records[i].outcome = "record") =>
      /\ PrefixField(records[i]) # <<"(none)">>
      /\ PrefixField(records[i]) # None
      /\ PrefixField(records[i]) \in {<<>>, records[i].registered}

(***************************************************************************)
(* enable_compliant_logging and the handlers of the root logger.           *)
(***************************************************************************)
\* logging.root.addHandler(h), as pytest does before the tests run
addHandler ==
  /\ \E h \in UserHandlers : handlers' = handlers \cup {h}
  /\ last_call' = [last_call EXCEPT !.fresh = FALSE]
  /\ UNCHANGED << _PREFIX, logger_class, manager, held, records, version,
                  stderr >>
  /\ OtherUnchanged

InitEnable ==
  /\ Idle
  /\ tin = NoInput /\ tout = NoInput /\ ain = NoInput /\ aout = NoInput
  /\ _PREFIX = None /\ logger_class = "Logger"
  /\ manager = {[name |-> "root", cls |-> "Logger"]}
  /\ held = {} /\ records = <<>>
  /\ version \in {7, 8}
  /\ handlers = {} /\ stderr = <<>>
  /\ last_call = [n |-> 0, prefix |-> None, force |-> "absent",
                  given |-> FALSE, hs |-> {}, before |-> {}, fresh |-> FALSE]
  /\ NoThreads

NextEnable ==
  \/ set_prefix \/ enable_compliant_logging(Kwargs) \/ addHandler

SpecEnable == InitEnable /\ [][NextEnable]_vars

\* the global state one call of enable_compliant_logging with the
\* arguments of the last call leaves
AsAfterOneCall ==
  /\ _PREFIX = last_call.prefix
  /\ logger_class = "CompliantLogger"
  /\ manager = {[name |-> "root", cls |-> "CompliantLogger"]}
  /\ Cardinality(handlers) = 1
  /\ handlers \cap last_call.before = {}

\* C22: right after any call of enable_compliant_logging that gave neither
\* force nor handlers, on Python 3.8 or later, whatever the calls before
\* it: the registered prefix is the prefix of that call, the root logger is
\* a CompliantLogger with exactly one handler, and no handler the root had
\* before the call is left.
C22_EnableIsIdempotent ==
  (last_call.fresh /\ version >= 8 /\ last_call.force = "absent"
     /\ ~last_call.given) => AsAfterOneCall

\* the second call, made with another prefix on a root logger that had the
\* handler of the first call and a handler the program added
C22_Witness ==
  /\ last_call.fresh /\ version >= 8 /\ last_call.n = 2
  /\ last_call.force = "absent" /\ ~last_call.given
  /\ last_call.before = {<<"basic", 1>>, <<"user", 1>>}
  /\ _PREFIX = <<"Other:">>
  /\ handlers = {<<"basic", 2>>}
  /\ stderr # <<>>

\* C22 as it is stated, of every call without an explicit force
C22_EnableIsIdempotentWhateverHandlers ==
  (last_call.fresh /\ version >= 8 /\ last_call.force = "absent")
    => AsAfterOneCall

\* the lines of the warning, each after the prefix p
Warning(p) == [i \in 1..Len(WARNING_LINES) |-> p \o WARNING_LINES[i]]

\* C23: a call of enable_compliant_logging writes the warning to stderr if
\* and only if the root logger had a handler when it was made, and every
\* line it writes starts with the prefix given to that call.
C23_WarnsIffRootHasHandlers ==
  last_call.n > 0 =>
    /\ stderr # <<>> <=> last_call.before # {}
    /\ stderr # <<>> => stderr = Warning(last_call.prefix)
    /\ \A i \in 1..Len(stderr) :
         /\ Len(stderr[i]) >= Len(last_call.prefix)
         /\ SubSeq(stderr[i], 1, Len(last_call.prefix)) = last_call.prefix

\* the second call, with another prefix than the registered one, warns of
\* the handler the first call left, under its own prefix
C23_Witness ==
  /\ last_call.n = 2 /\ last_call.fresh
  /\ last_call.before = {<<"basic", 1>>}
  /\ last_call.prefix = <<"Other:">>
  /\ Len(stderr) = Len(WARNING_LINES)
  /\ stderr[3] = <<"Other:">> \o WARNING_LINES[3]

(***************************************************************************)
(* set_prefix and get_prefix called by several threads: a step of a thread *)
(* is the taking of _LOCK, the assignment, the release, or the read.       *)
(***************************************************************************)
\* what a thread calls: set_prefix(value) or get_prefix()
ThreadCalls ==
  {[op |-> "set", value |-> v, pc |-> "acquire", result |-> None,
    stored |-> {}] : v \in Prefixes}
  \cup {[op |-> "get", value |-> None, pc |-> "read", result |-> None,
         stored |-> {}]}

InitThreads ==
  /\ Idle
  /\ tin = NoInput /\ tout = NoInput /\ ain = NoInput /\ aout = NoInput
  /\ _PREFIX = None /\ logger_class = "Logger"
  /\ manager = {[name |-> "root", cls |-> "Logger"]}
  /\ held = {} /\ records = <<>>
  /\ version = 8 /\ handlers = {} /\ stderr = <<>>
  /\ last_call = [n |-> 0, prefix |-> None, force |-> "absent",
                  given |-> FALSE, hs |-> {}, before |-> {}, fresh |-> FALSE]
  /\ _LOCK = 0
  /\ threads \in [1..MaxThreads -> ThreadCalls]
  /\ lock_order = <<>>

ThreadsUnchanged ==
  /\ UNCHANGED << logger_class, manager, held, records, version, handlers,
                  stderr, last_call >>
  /\ IdleUnchanged /\ UNCHANGED << tin, tout, ain, aout >>

\* a lock that any thread may take at any time
acquirable_always(lock) == TRUE

\* with _LOCK: the lock is taken when no thread holds it
acquirable(lock) == lock = 0

\* the values set_prefix has stored so far
Stored ==
  {threads[t].value : t \in {u \in DOMAIN threads :
       threads[u].op = "set" /\ threads[u].pc \in {"release", "done"}}}

\* line 26
Acquire(t) ==
  /\ threads[t].pc = "acquire" /\ acquirable(_LOCK)
  /\ _LOCK' = t
  /\ lock_order' = Append(lock_order, t)
  /\ threads' = [threads EXCEPT ![t].pc = "store"]
  /\ UNCHANGED _PREFIX
  /\ ThreadsUnchanged

\* line 28
Store(t) ==
  /\ threads[t].pc = "store"
  /\ _PREFIX' = threads[t].value
  /\ threads' = [threads EXCEPT ![t].pc = "release"]
  /\ UNCHANGED << _LOCK, lock_order >>
  /\ ThreadsUnchanged

\* the end of the with block of line 26
Release(t) ==
  /\ threads[t].pc = "release"
  /\ _LOCK' = 0
  /\ threads' = [threads EXCEPT ![t].pc = "done"]
  /\ UNCHANGED << _PREFIX, lock_order >>
  /\ ThreadsUnchanged

\* line 36
Read(t) ==
  /\ threads[t].pc = "read"
  /\ threads' = [threads EXCEPT ![t].pc = "done", ![t].result = _PREFIX,
                                ![t].stored = Stored]
  /\ UNCHANGED << _PREFIX, _LOCK, lock_order >>
  /\ ThreadsUnchanged

NextThreads ==
  \E t \in 1..MaxThreads : Acquire(t) \/ Store(t) \/ Release(t) \/ Read(t)

SpecThreads == InitThreads /\ [][NextThreads]_vars

\* the threads between the taking and the release of _LOCK
Writing == {t \in DOMAIN threads : threads[t].pc \in {"store", "release"}}

\* C24: under every interleaving of set_prefix and get_prefix at most one
\* thread is between the taking and the release of _LOCK; get_prefix
\* returns None only when no set_prefix had stored yet, and otherwise a
\* value that a set_prefix had stored; and when every call has finished
\* the prefix is the value of the set_prefix that took the lock last.
C24_LastWriterWins ==
  /\ Cardinality(Writing) <= 1
  /\ Writing = IF _LOCK = 0 THEN {} ELSE {_LOCK}
  /\ \A t \in DOMAIN threads :
       (threads[t].op = "get" /\ threads[t].pc = "done") =>
         IF threads[t].stored = {}
         THEN threads[t].result = None
         ELSE threads[t].result \in threads[t].stored
  /\ (\A t \in DOMAIN threads : threads[t].pc = "done") =>
       IF lock_order = <<>> THEN _PREFIX = None
       ELSE _PREFIX = threads[lock_order[Len(lock_order)]].value

\* two set_prefix of different values and a get_prefix that ran between
\* them: the read saw the first value, the second is the one left
C24_Witness ==
  /\ \A t \in DOMAIN threads : threads[t].pc = "done"
  /\ Len(lock_order) = 2
  /\ threads[lock_order[1]].value # threads[lock_order[2]].value
  /\ \E t \in DOMAIN threads :
       /\ threads[t].op = "get"
       /\ threads[t].result = threads[lock_order[1]].value
  /\ _PREFIX = threads[lock_order[2]].value

\* the items of a dict but the one of the key prefix
Unprefixed(items) == {it \in items : it[1] # "prefix"}

\* C26: every record made through a CompliantLogger is the record the
\* logger class it derives from makes of the same call, but for the field
\* prefix: the fields the caller gave in extra are in it with the caller's
\* values, prefix is the one the category asks for whatever extra said,
\* and the function it names is the function that made the call.
C26_RecordForwardedUnchanged ==
  \A i \in 1..Len(records) :
    LET r == records[i] IN
    (r.logger.cls = "CompliantLogger" /\ r.outcome = "record") =>
      /\ Unprefixed(r.fields) = Unprefixed(r.extra.items)
      /\ PrefixField(r) = PrefixAsked(r)
      /\ r.funcName = findCaller(CALLER_FRAMES, r.stacklevel)

\* the part of C26 about extra and prefix, which holds
C26_ExtraForwardedPrefixDecided ==
  \A i \in 1..Len(records) :
    LET r == records[i] IN
    (r.logger.cls = "CompliantLogger" /\ r.outcome = "record") =>
      /\ Unprefixed(r.fields) = Unprefixed(r.extra.items)
      /\ PrefixField(r) = PrefixAsked(r)

(***************************************************************************)
(* The sanitizer on errors reached twice, applied twice, and run by two    *)
(* threads.                                                                *)
(***************************************************************************)
RECURSIVE TextsIn(_)
\* the texts of a value: the value itself, or the texts of its members
TextsIn(v) ==
  IF v.k = "str" THEN {v.s}
  ELSE IF v.k \in {"tuple", "list"}
  THEN UNION {TextsIn(v.e[i]) : i \in 1..Len(v.e)}
  ELSE {}

\* how many times the prefix stands in a text
Occurrences(s) == Cardinality({i \in 1..Len(s) : <<s[i]>> = cfg.prefix})

\* the texts of the attributes of the error n
TextsOf(h, n) ==
  UNION {TextsIn(h[n].attrs[a].val) : a \in DOMAIN h[n].attrs}

\* C28: in one call of the emitter no error gets a second activation of
\* scrub_exception, by whatever paths it is reached, and no text of an
\* attribute of any error has the prefix more than once.
C28_TransformedAtMostOnce ==
  /\ \A n \in Ids(orig) : hist.visits[n] <= 1
  /\ \A n \in Ids(heap) : \A t \in TextsOf(heap, n) : Occurrences(t) <= 1

\* an error that is the cause and the context of the error raised, and is
\* its own cause: it was sanitized once and its message has one prefix
C28_Witness ==
  /\ pc = "done" /\ raised.kind = "reraise"
  /\ Len(orig) = 2
  /\ orig[1].cause = 2 /\ orig[1].context = 2 /\ orig[2].cause = 2
  /\ hist.visits[2] = 1 /\ "args" \in hist.written[2]
  /\ \E t \in TextsOf(heap, 2) : Occurrences(t) = 1
  /\ \A t \in TextsOf(orig, 2) : Occurrences(t) = 0

\* the error a wrapper re-raised is caught by the wrapper around it, with
\* the same prefix and scrub_message, whose emitter starts on it (lines
\* 337-347)
Reapply ==
  /\ pc = "done" /\ raised.kind = "reraise" /\ ~first_pass.done
  /\ first_pass' =
       [done |-> TRUE, heap |-> heap, result |-> raised.node,
        plain |-> \A n \in Ids(orig) : ~KeepByPolicy(n) /\ ~FailsToScrub(n)]
  /\ err' = raised.node
  /\ pc' = "start"
  /\ stack' = <<>> /\ seen' = {} /\ scrubbed_err' = 0
  /\ raised' = NotRaised
  /\ orig' = heap
  /\ hist' = NoHist(heap)
  /\ UNCHANGED << cfg, heap, sink, parked, extractor >>
  /\ UNCHANGED << tin, tout, ain, aout, entry, exc_info, returned_value,
                  logging_vars >>

InitTwice ==
  /\ Init
  /\ cfg.allow_list = <<>>

NextTwice == Next \/ Reapply

SpecTwice == InitTwice /\ [][NextTwice]_vars

\* the second call left every error with the type and the attributes the
\* first call had left it, and re-raised the same error
SameAsFirst ==
  /\ raised.node = first_pass.result
  /\ Len(heap) = Len(first_pass.heap)
  /\ \A n \in Ids(heap) :
       /\ heap[n].type = first_pass.heap[n].type
       /\ heap[n].attrs = first_pass.heap[n].attrs

\* the second call has re-raised
SecondDone == first_pass.done /\ pc = "done" /\ raised.kind = "reraise"

\* C29: with keep_message false and an empty allow_list, on a graph none of
\* whose errors the built-in Public* names allow and all of whose
\* attributes can be transformed and written, a second call of the emitter
\* on the result of the first leaves the type and every attribute of
\* every error as the first call left them.
C29_SecondPassChangesNothing ==
  (SecondDone /\ ~cfg.keep_message /\ first_pass.plain) => SameAsFirst

\* two errors in a cycle, scrubbed twice: the second call wrote the
\* attributes again and the message is the prefix and the scrub message
C29_Witness ==
  /\ SecondDone /\ ~cfg.keep_message /\ first_pass.plain
  /\ Len(heap) = 2 /\ heap[1].cause = 2 /\ heap[2].context = 1
  /\ "args" \in hist.written[1] /\ "args" \in hist.written[2]
  /\ cfg.prefix \o cfg.scrub_message \in TextsOf(heap, 1)
  /\ SameAsFirst

\* C29 as it is stated, of every graph
C29_SecondPassChangesNothingOnAnyGraph ==
  (SecondDone /\ ~cfg.keep_message) => SameAsFirst

\* ---- compliant_logging/stack_trace_extractor.py ----

\* a line is a sequence of words; these are the words the patterns of the
\* parsers look for, and two that none of them looks for
TRACEBACK == "Traceback (most recent call last):"

DigitWords == {"28", "121"}

\* the words that end in Error
ErrorWords == {"ZeroDivisionError", "Error"}

PythonWords ==
  {TRACEBACK, "File ", ", line ", ", in ", "28", "ZeroDivisionError", ": ",
   "hello world"}

\* the longest line made of any words
MaxWords == 3

\* the positions of word w in a line
Pos(string, w) == {i \in DOMAIN string : string[i] = w}

Least(S) == CHOOSE x \in S : \A y \in S : x <= y

Most(S) == CHOOSE x \in S : \A y \in S : y <= x

\* a Match object by its groupdict(), and None
NoMatch == [matched |-> FALSE, groupdict |-> <<>>]

Match(groups) == [matched |-> TRUE, groupdict |-> groups]

\* m.groupdict().get(name), the empty text when there is none
group(m, name) ==
  LET at == {i \in DOMAIN m.groupdict : m.groupdict[i][1] = name}
  IN  IF at = {} THEN <<>> ELSE m.groupdict[Least(at)][2]

\* re.search of line 43
search_traceback(string) == Pos(string, TRACEBACK) # {}

\* re.search of line 49: the leftmost File, the longest file, \d* up to
\* the ", in " that follows it
search_file(string) ==
  LET ends == {t \in Pos(string, "File ") \X Pos(string, ", line ")
                       \X Pos(string, ", in ") :
                 /\ t[1] < t[2] /\ t[2] < t[3]
                 /\ \A d \in (t[2] + 1)..(t[3] - 1) : string[d] \in DigitWords}
  IN  IF ends = {} THEN NoMatch
      ELSE LET s == Least({t[1] : t \in ends})
               j == Most({t[2] : t \in {u \in ends : u[1] = s}})
               k == Least({t[3] : t \in {u \in ends : u[1] = s /\ u[2] = j}})
           IN  Match(<< <<"file", SubSeq(string, s + 1, j - 1)>>,
                        <<"line", SubSeq(string, j + 1, k - 1)>>,
                        <<"method", SubSeq(string, k + 1, Len(string))>> >>)

\* re.search of line 54: the longest type that ends in Error before ": "
search_error(string) ==
  LET ends == {i \in DOMAIN string :
                 /\ string[i] \in ErrorWords
                 /\ i < Len(string) /\ string[i + 1] = ": "}
  IN  IF ends = {} THEN NoMatch
      ELSE LET i == Most(ends)
           IN  Match(<< <<"type", SubSeq(string, 1, i)>>,
                        <<"message", SubSeq(string, i + 2, Len(string))>> >>)

\* an error line matched whether a traceback is open or not
_parse_trace_python_any_error(in_python_traceback, string) ==
  IF search_traceback(string)
  THEN [in_python_traceback |-> TRUE, m |-> NoMatch]
  ELSE IF search_file(string).matched
  THEN [in_python_traceback |-> in_python_traceback, m |-> search_file(string)]
  ELSE IF search_error(string).matched
  THEN [in_python_traceback |-> FALSE, m |-> search_error(string)]
  ELSE [in_python_traceback |-> in_python_traceback, m |-> NoMatch]

\* lines 42-60: the match returned and the flag left
_parse_trace_python(in_python_traceback, string) ==
  IF search_traceback(string)
  THEN [in_python_traceback |-> TRUE, m |-> NoMatch]
  ELSE IF search_file(string).matched
  THEN [in_python_traceback |-> in_python_traceback, m |-> search_file(string)]
  ELSE IF search_error(string).matched /\ in_python_traceback
  THEN [in_python_traceback |-> FALSE, m |-> search_error(string)]
  ELSE [in_python_traceback |-> in_python_traceback, m |-> NoMatch]

\* re.search of lines 64-67
search_csharp_frame(string) ==
  LET ends == {t \in Pos(string, "at ") \X Pos(string, ".") \X Pos(string, ".")
                       \X Pos(string, " in ") \X Pos(string, ":line ") :
                 /\ t[1] < t[2] /\ t[2] < t[3] /\ t[3] < t[4] /\ t[4] < t[5]}
  IN  IF ends = {} THEN NoMatch
      ELSE LET a  == Least({t[1] : t \in ends})
               e1 == {t \in ends : t[1] = a}
               d1 == Most({t[2] : t \in e1})
               e2 == {t \in e1 : t[2] = d1}
               d2 == Most({t[3] : t \in e2})
               e3 == {t \in e2 : t[3] = d2}
               n  == Most({t[4] : t \in e3})
               e4 == {t \in e3 : t[4] = n}
               l  == Most({t[5] : t \in e4})
               digits == {k \in l..Len(string) :
                            \A d \in (l + 1)..k : string[d] \in DigitWords}
           IN  Match(<< <<"namespace", SubSeq(string, a + 1, d1 - 1)>>,
                        <<"class", SubSeq(string, d1 + 1, d2 - 1)>>,
                        <<"method", SubSeq(string, d2 + 1, n - 1)>>,
                        <<"file", SubSeq(string, n + 1, l - 1)>>,
                        <<"line", SubSeq(string, l + 1, Most(digits))>> >>)

\* re.search of line 71
search_csharp_unhandled(string) ==
  LET ends == {t \in Pos(string, "Unhandled exception. ") \X Pos(string, ": ") :
                 t[1] < t[2]}
  IN  IF ends = {} THEN NoMatch
      ELSE LET u == Least({t[1] : t \in ends})
               c == Most({t[2] : t \in {v \in ends : v[1] = u}})
           IN  Match(<< <<"type", SubSeq(string, u + 1, c - 1)>>,
                        <<"message", SubSeq(string, c + 1, Len(string))>> >>)

\* lines 62-76
_parse_trace_csharp(string) ==
  IF search_csharp_frame(string).matched THEN search_csharp_frame(string)
  ELSE search_csharp_unhandled(string)

\* the lines of the tests of the parsers, and of a log
CS_FRAME ==
  << "at ", "ExtractExceptions", ".", "ExceptionExtractor", ".",
     "Main(String[] args", " in ", "Program", ".", "cs", ":line ", "121" >>

CS_UNHANDLED ==
  << "Unhandled exception. ", "System", ".", "IndexOutOfRangeException",
     ": ", "Index was outside the bounds of the array", "." >>

PY_TRACEBACK == << TRACEBACK >>

PY_FILE ==
  << "File ", "exceptionExtractor", ".", "py", ", line ", "28", ", in ",
     "<module>" >>

PY_CODE == << "print(10/0)" >>

PY_ERROR == << "ZeroDivisionError", ": ", "division by zero" >>

HELLO == << "hello world" >>

\* lines that have more than one of the forms
TRACEBACK_AND_FILE == PY_TRACEBACK \o PY_FILE

FILE_AND_ERROR == PY_FILE \o PY_ERROR

\* a File line but for its line number, and an error after it
NO_NUMBER_AND_ERROR ==
  << "File ", "exceptionExtractor", ", line ", "hello world", ", in " >>
  \o PY_ERROR

SampleLines ==
  {CS_FRAME, CS_UNHANDLED, PY_TRACEBACK, PY_FILE, PY_CODE, PY_ERROR, HELLO,
   TRACEBACK_AND_FILE, FILE_AND_ERROR, NO_NUMBER_AND_ERROR}

\* the lines handed to _parse_trace_python
Strings ==
  (UNION {[1..n -> PythonWords] : n \in 0..MaxWords}) \cup SampleLines

\* what os.path and open() find at each path
NoFile == [kind |-> "", lines |-> <<>>, names |-> {}]

File(lines) == [kind |-> "file", lines |-> lines, names |-> {}]

Directory(names) == [kind |-> "dir", lines |-> <<>>, names |-> names]

\* a link to nothing: glob lists it, open() does not find it
Dangling == [kind |-> "", lines |-> <<>>, names |-> {}]

Paths ==
  {"log.err", "open.err", "late.err", "dangling.err", "notes.txt",
   "logs", "empty", "sealed", "missing"}

FileSystem ==
  [p \in Paths |->
     CASE p = "log.err" ->
            File(<< CS_UNHANDLED, CS_FRAME, PY_TRACEBACK, PY_FILE, PY_CODE,
                    PY_ERROR >>)
       [] p = "open.err"  -> File(<< PY_TRACEBACK, PY_FILE >>)
       [] p = "late.err"  -> File(<< PY_ERROR, HELLO >>)
       [] p = "notes.txt" -> File(<< HELLO >>)
       [] p = "dangling.err" -> Dangling
       [] p = "logs"   -> Directory({"open.err", "late.err", "notes.txt"})
       [] p = "empty"  -> Directory({"notes.txt"})
       [] p = "sealed" -> Directory({"dangling.err"})
       [] OTHER -> NoFile]

\* the names "*.err" matches
ErrNames == {"log.err", "open.err", "late.err", "dangling.err"}

\* glob.glob(path + "/*.err"): the matching names, in the order the
\* directory lists them
glob(path) ==
  LET names == FileSystem[path].names \cap ErrNames
  IN  {files \in [1..Cardinality(names) -> names] :
         \A i, j \in DOMAIN files : i # j => files[i] # files[j]}

isfile(path) == FileSystem[path].kind = "file"

isdir(path) == FileSystem[path].kind = "dir"

AssertionError == << "Assertion", "Error" >>

NotRaisedError == [type |-> <<>>, message |-> <<>>]

\* print(f"{self.prefix}: {text}"), and print() for the empty line
print(self, lines) == [self EXCEPT !.stdout = @ \o lines]

labelled(self, label, value) == << self.prefix, ": ", label >> \o value

\* lines 98-107: what is printed for the match r.m of _parse_trace_python
print_python(self, r) ==
  print([self EXCEPT !.in_python_traceback = r.in_python_traceback],
        IF r.m.matched /\ group(r.m, "type") # <<>>
        THEN << labelled(self, "type: ", group(r.m, "type")) >>
             \o (IF self.show_exception_message
                 THEN << labelled(self, "message: ", group(r.m, "message")),
                         <<>> >>
                 ELSE <<>>)
        ELSE IF r.m.matched /\ group(r.m, "file") # <<>>
        THEN << labelled(self, "file: ", group(r.m, "file")),
                labelled(self, "line: ", group(r.m, "line")),
                labelled(self, "method: ", group(r.m, "method")) >>
        ELSE <<>>)

\* lines 82-98: what is printed for the match m of _parse_trace_csharp,
\* and the Python parser for a line it does not print
print_csharp(self, m, line) ==
  IF m.matched /\ group(m, "type") # <<>>
  THEN print(self,
             << labelled(self, "type: ", group(m, "type")) >>
             \o (IF self.show_exception_message
                 THEN << labelled(self, "message: ", group(m, "message")) >>
                 ELSE <<>>))
  ELSE IF m.matched /\ group(m, "namespace") # <<>>
  THEN print(self,
             << labelled(self, "namespace: ", group(m, "namespace")),
                labelled(self, "class: ", group(m, "class")),
                labelled(self, "method: ", group(m, "method")),
                labelled(self, "file: ", group(m, "file")),
                labelled(self, "line: ", group(m, "line")),
                <<>> >>)
  ELSE print_python(self, _parse_trace_python(self.in_python_traceback, line))

\* the body of the loop of lines 81-107 for one line
parse_line(self, line) == print_csharp(self, _parse_trace_csharp(line), line)

RECURSIVE parse_lines(_, _, _)
\* the loop of lines 81-107 over the first n lines
parse_lines(self, lines, n) ==
  IF n = 0 THEN self
  ELSE parse_line(parse_lines(self, lines, n - 1), lines[n])

\* what open() raises for a file that is not there
open_error(file) ==
  [type |-> FileNotFoundError,
   message |-> << "[Errno 2] ", "No such file or directory", ": '", file, "'" >>]

\* lines 78-107, for a file reached by the loop of extract: no file is
\* parsed after one that raised
_parse_file(self, file) ==
  IF self.raised # NotRaisedError THEN self
  ELSE IF ~isfile(file)
  THEN [print(self, << labelled(self, "Parsing file ", << file >>) >>)
          EXCEPT !.raised = open_error(file), !.failed = TRUE]
  ELSE parse_lines(print(self, << labelled(self, "Parsing file ", << file >>) >>),
                   FileSystem[file].lines, Len(FileSystem[file].lines))

RECURSIVE parse_files(_, _, _)
\* the loop of lines 130-131 over the first n files
parse_files(self, files, n) ==
  IF n = 0 THEN self
  ELSE _parse_file(parse_files(self, files, n - 1), files[n])

\* lines 109-118: what is printed or raised, and the list returned when
\* glob returns listed
_get_files(self, path) ==
  IF isfile(path) THEN print(self, << << self.prefix, ": ", "Input is a file" >> >>)
  ELSE IF isdir(path)
  THEN print(self, << << self.prefix, ": ", "Input is a directory" >> >>)
  ELSE [self EXCEPT
          !.failed = TRUE,
          !.raised =
            [type |-> PublicValueError,
             message |-> << "Provided path is neither a file nor a directory" >>]]

files_returned(path, listed) ==
  IF isfile(path) THEN << path >> ELSE IF isdir(path) THEN listed ELSE <<>>

\* line 132, which python -O drops
assert_False(self) ==
  IF self.raised = NotRaisedError /\ ~self.optimize
  THEN [self EXCEPT !.raised = [type |-> AssertionError, message |-> <<>>]]
  ELSE self

\* the error print_prefixed_stack_trace_and_raise(err=e, keep_message=True)
\* raises: the error it was given, each text of it after the prefix
kept(e) ==
  [type |-> e.type,
   message |->
     IF e.type = FileNotFoundError
     THEN << e.message[1] >> \o PREFIX \o << e.message[2], e.message[3] >>
          \o PREFIX \o << e.message[4], e.message[5], " -> None" >>
     ELSE IF e.message = <<>> THEN <<>>
     ELSE PREFIX \o e.message]

PROBLEM_LINE == "There is a problem with the exceptionExtractor."

\* lines 133-135
except_block(self) ==
  IF self.raised = NotRaisedError THEN self
  ELSE [print(self, << << self.prefix, ": ", PROBLEM_LINE >> >>)
          EXCEPT !.raised = kept(@)]

\* the extractor when a call begins
called(self, op, string, path) ==
  [self EXCEPT !.op = op, !.string = string, !.path = path,
               !.before = self.in_python_traceback, !.match = NoMatch,
               !.stdout = <<>>, !.failed = FALSE, !.raised = NotRaisedError]

\* lines 120-135
extract_call(self, path, listed) ==
  except_block(
    assert_False(
      parse_files(_get_files(called(self, "extract", <<>>, path), path),
                  files_returned(path, listed),
                  Len(files_returned(path, listed)))))

\* lines 42-60 as a method: the flag and the match it leaves
parse_trace_python_call(self, r) ==
  [self EXCEPT !.in_python_traceback = r.in_python_traceback, !.match = r.m]

ExtractorUnchanged ==
  /\ EmitterUnchanged
  /\ UNCHANGED << tin, tout, ain, aout, logging_vars >>

\* a call of _parse_trace_python with any line, as the tests make it
parse_trace_python ==
  /\ \E string \in Strings :
       extractor' =
         parse_trace_python_call(
           called(extractor, "_parse_trace_python", string, ""),
           _parse_trace_python(extractor.in_python_traceback, string))
  /\ ExtractorUnchanged

\* a call of extract with any path
extract ==
  /\ \E path \in Paths :
       \E listed \in glob(path) :
         extractor' = extract_call(extractor, path, listed)
  /\ ExtractorUnchanged

InitExtractor ==
  /\ EmitterIdle
  /\ tin = NoInput /\ tout = NoInput /\ ain = NoInput /\ aout = NoInput
  /\ LoggingIdle
  /\ extractor \in {[NoExtractor EXCEPT !.show_exception_message = show,
                                         !.optimize = O] :
                       show \in BOOLEAN, O \in BOOLEAN}

NextExtractor == parse_trace_python \/ extract

SpecExtractor == InitExtractor /\ [][NextExtractor]_vars

\* the last call was _parse_trace_python
Parsed == extractor.op = "_parse_trace_python"

\* the last call returned a match with n groups
Groups(n) == extractor.match.matched /\ Len(extractor.match.groupdict) = n

FlagUnchanged == extractor.in_python_traceback = extractor.before

\* the forms a line can have
HasTraceback == search_traceback(extractor.string)

HasFile == search_file(extractor.string).matched

HasError == search_error(extractor.string).matched

\* C27: _parse_trace_python is a two-state machine over in_python_traceback,
\* a line being taken by the first of these forms that is found in it: a
\* Traceback line sets the flag and yields no match; a File line yields a
\* match with three groups and leaves the flag; an Error line yields a
\* match with two groups only when the flag is set, and then clears it;
\* any other line yields no match and leaves the flag.
C27_TwoStateMachineByFirstForm ==
  Parsed =>
    /\ HasTraceback => extractor.in_python_traceback /\ ~extractor.match.matched
    /\ (~HasTraceback /\ HasFile) => Groups(3) /\ FlagUnchanged
    /\ (~HasTraceback /\ ~HasFile /\ HasError /\ extractor.before)
         => Groups(2) /\ ~extractor.in_python_traceback
    /\ (~HasTraceback /\ ~HasFile /\ HasError /\ ~extractor.before)
         => ~extractor.match.matched /\ FlagUnchanged
    /\ (~HasTraceback /\ ~HasFile /\ ~HasError)
         => ~extractor.match.matched /\ FlagUnchanged

\* the error line that ends a traceback: a Traceback line had set the flag,
\* the line is matched with its type and message, and the flag is cleared
C27_Witness ==
  /\ Parsed /\ extractor.string = PY_ERROR /\ extractor.before
  /\ Groups(2) /\ ~extractor.in_python_traceback
  /\ group(extractor.match, "type") = << "ZeroDivisionError" >>

\* C27 as it is stated, of every line that has one of the forms
C27_TwoStateMachine ==
  Parsed =>
    /\ HasTraceback => extractor.in_python_traceback /\ ~extractor.match.matched
    /\ HasFile => Groups(3) /\ FlagUnchanged
    /\ (HasError /\ extractor.before)
         => Groups(2) /\ ~extractor.in_python_traceback
    /\ (HasError /\ ~extractor.before)
         => ~extractor.match.matched /\ FlagUnchanged
    /\ (~HasTraceback /\ ~HasFile /\ ~HasError)
         => ~extractor.match.matched /\ FlagUnchanged

\* extract printed the line that reports a problem
ProblemPrinted ==
  \E i \in DOMAIN extractor.stdout :
    extractor.stdout[i] = << extractor.prefix, ": ", PROBLEM_LINE >>

\* C30: extract returns without the problem line and without raising when
\* the path is a file or a directory and every file was read and parsed,
\* and prints the line and raises only when discovery or parsing failed.
C30_ReturnsWhenNothingFailed ==
  extractor.op = "extract" =>
    /\ ~extractor.failed
         => extractor.raised = NotRaisedError /\ ~ProblemPrinted
    /\ (extractor.raised # NotRaisedError \/ ProblemPrinted)
         => extractor.failed

\* what extract does: unless python runs with -O it raises on every path
C30_RaisesWhateverThePath ==
  (extractor.op = "extract" /\ ~extractor.optimize)
    => extractor.raised # NotRaisedError /\ ProblemPrinted

(***************************************************************************)
(* Two calls of scrub_exception on two error graphs that share no error,   *)
(* made by two threads.  Both graphs are in the one heap; a step is a step *)
(* of the thread that runs, and Switch lets the other thread run.  The     *)
(* calls are first made one after the other, then again, from the same     *)
(* errors, with the threads switching at any step.                         *)
(***************************************************************************)
ConcurrentNames == {"ValueError", "PublicValueError", "UnmodifiableError"}

\* one error, alone or its own cause, or two in a chain or a cycle
ConcurrentGraphs ==
  {Graph(1, names, cause, <<0>>) :
     names \in [1..1 -> ConcurrentNames], cause \in {<<0>>, <<1>>}}
  \cup
  {Graph(2, names, links[1], links[2]) :
     names \in [1..2 -> ConcurrentNames],
     links \in {<< <<2, 0>>, <<0, 0>> >>, << <<0, 0>>, <<2, 0>> >>,
                << <<2, 0>>, <<0, 1>> >>, << <<2, 0>>, <<2, 0>> >>}}

\* the graphs of the second call: two errors in a cycle
SecondGraphs ==
  {g \in ConcurrentGraphs : Len(g) = 2 /\ g[1].cause = 2 /\ g[2].context = 1}

\* graph g where the heap already holds k errors
Shift(g, k) ==
  [i \in 1..Len(g) |->
     [g[i] EXCEPT !.cause = IF @ = 0 THEN 0 ELSE @ + k,
                  !.context = IF @ = 0 THEN 0 ELSE @ + k]]

RECURSIVE View(_, _, _)
\* error n of heap h as a caller sees it, k links deep: the types, the
\* attributes and the links, without the identities
View(h, n, k) ==
  IF n = 0 \/ k = 0 THEN << >>
  ELSE << [type |-> h[n].type, attrs |-> h[n].attrs,
           cause |-> View(h, h[n].cause, k - 1),
           context |-> View(h, h[n].context, k - 1)] >>

\* what a finished call gave its caller: the error it raised or the error
\* it returned, and the error it was given as the call left it
ResultOf(h, call) ==
  [raised |-> call.raised.exc,
   returned |-> View(h, call.scrubbed_err, Len(h)),
   given |-> View(h, call.err, Len(h))]

\* the call of the thread that runs
Running ==
  [call |-> 3 - parked.call, pc |-> pc, stack |-> stack, seen |-> seen,
   err |-> err, scrubbed_err |-> scrubbed_err, raised |-> raised,
   together |-> parked.together, mixed |-> parked.mixed,
   alone |-> parked.alone]

Finished(call) == call.pc \in {"print", "done"}

\* the two calls, the first first
BothCalls ==
  IF parked.call = 2 THEN << Running, parked >> ELSE << parked, Running >>

InitConcurrent ==
  /\ cfg \in {c \in Configs : ~c.keep_message /\ c.allow_list = <<>>}
  /\ \E a \in ConcurrentGraphs, b \in SecondGraphs :
       /\ heap = a \o Shift(b, Len(a))
       /\ parked = [NoParked EXCEPT !.call = 2, !.pc = "start",
                                    !.err = Len(a) + 1]
  /\ err = 1
  /\ pc = "start"
  /\ stack = <<>> /\ seen = {} /\ scrubbed_err = 0
  /\ sink = <<>> /\ raised = NotRaised
  /\ orig = heap
  /\ hist = NoHist(heap)
  /\ tin = NoInput /\ tout = NoInput /\ ain = NoInput /\ aout = NoInput
  /\ entry = DirectEntry /\ exc_info = 0 /\ returned_value = ""
  /\ LoggingIdle
  /\ first_pass = NoFirstPass /\ extractor = NoExtractor

\* the other thread runs: at any step once the calls are made together,
\* and before that when the call that runs has returned and the other has
\* not begun
Switch ==
  /\ parked.call # 0
  /\ parked.together \/ (Finished(Running) /\ parked.pc = "start")
  \* mixed: a thread was stopped in the middle of its graph
  /\ parked' = [Running EXCEPT !.mixed = @ \/ pc = "scrub"]
  /\ pc' = parked.pc /\ stack' = parked.stack /\ err' = parked.err
  /\ scrubbed_err' = parked.scrubbed_err /\ raised' = parked.raised
  \* _seen is a local of the call; the set the other call made is what a
  \* call that has not begun finds left
  /\ seen' = IF parked.pc = "start" THEN seen ELSE parked.seen
  /\ UNCHANGED << cfg, heap, sink, orig, hist, first_pass, extractor >>
  /\ UNCHANGED << tin, tout, ain, aout, entry, exc_info, returned_value,
                  logging_vars >>

\* both calls have returned, one after the other: the same two calls are
\* made again on the errors as they were, now together
Together ==
  /\ parked.call # 0 /\ ~parked.together
  /\ Finished(Running) /\ Finished(parked)
  /\ parked' = [NoParked EXCEPT
                  !.call = 2, !.pc = "start", !.err = BothCalls[2].err,
                  !.together = TRUE,
                  !.alone = << ResultOf(heap, BothCalls[1]),
                               ResultOf(heap, BothCalls[2]) >>]
  /\ heap' = orig
  /\ hist' = NoHist(orig)
  /\ err' = BothCalls[1].err
  /\ pc' = "start"
  /\ stack' = <<>> /\ scrubbed_err' = 0 /\ raised' = NotRaised
  /\ UNCHANGED << cfg, seen, sink, orig, first_pass, extractor >>
  /\ UNCHANGED << tin, tout, ain, aout, entry, exc_info, returned_value,
                  logging_vars >>

NextConcurrent ==
  \/ Call
  \/ FollowCause
  \/ FollowContext
  \/ ScrubAttributes
  \/ Switch
  \/ Together

SpecConcurrent == InitConcurrent /\ [][NextConcurrent]_vars

\* the visited set of a call that has begun holds errors of the graph the
\* call was given and no other
OwnVisitedSet(call) ==
  call.pc # "start" => call.seen \subseteq Reachable(orig, call.err)

\* C25: two calls of scrub_exception on graphs that share no error, run by
\* two threads that switch at any step: each call has a visited set of its
\* own, holding errors of its own graph only, and each call raises or
\* returns what it raises or returns when the calls are made one after the
\* other, and leaves the error it was given as it leaves it then.
C25_ConcurrentCallsDoNotInterfere ==
  /\ OwnVisitedSet(Running)
  /\ OwnVisitedSet(parked)
  /\ (parked.together /\ Finished(Running) /\ Finished(parked))
       => /\ ResultOf(heap, BothCalls[1]) = parked.alone[1]
          /\ ResultOf(heap, BothCalls[2]) = parked.alone[2]

\* both calls returned after running together, a thread having been
\* stopped in the middle of its graph, and each has visited the two errors
\* of its graph
C25_Witness ==
  /\ parked.together /\ Finished(Running) /\ Finished(parked)
  /\ parked.mixed
  /\ Cardinality(BothCalls[1].seen) = 2 /\ Cardinality(BothCalls[2].seen) = 2
  /\ BothCalls[1].seen \cap BothCalls[2].seen = {}
  /\ hist.steps > 0
  /\ ResultOf(heap, BothCalls[1]) = parked.alone[1]
  /\ parked.alone[1].returned # << >>

====
